---- MODULE Spec2Model ----
(***************************************************************************)
(* Verification model of the terminal music player jscyril/gtmpc.         *)
(*                                                                         *)
(*   - the playback queue  (package playlist, Queue)                       *)
(*   - the playback engine (package audio, AudioEngine)                    *)
(*   - the library scanner, the audio formats, the library's track map     *)
(*     and indices (package library), and the UI driver's event command    *)
(*                                                                         *)
(* Go slices are 0-based; a slice is modelled as a TLA+ sequence and the   *)
(* element with Go index i is At(s, i) == s[i + 1].  An index expression   *)
(* outside the slice is a run-time panic in Go: the operation that does it *)
(* reports panic = TRUE and the program performs no further operation.     *)
(***************************************************************************)
EXTENDS Integers, Sequences, FiniteSets, TLC

\* ------------------------------------------------------------------------
\* Bounds of the model
\* ------------------------------------------------------------------------
\* longest queue the callers build with Set and Add
MaxLen == 3

\* the tracks the callers put in the queue, named by Track.ID (the same track
\* may be queued more than once)
TrackIds == {"A", "B"}

\* the tracks of the scenario queue [A,B,C]
ScenarioTracks == {"A", "B", "C"}

\* a nil *api.Track (and the result of an operation that returns nothing)
Nil == "nil"

\* api.RepeatMode
RepeatNone == 0
RepeatOne == 1
RepeatAll == 2

\* api.PlayerStatus
StatusStopped == 0
StatusPlaying == 1
StatusPaused == 2

\* most API calls made on the engine in one run
MaxCalls == 3

\* capacity of AudioEngine.commands and AudioEngine.events.  The program
\* allocates 10 and 20 slots; a send blocks when the buffer is full whatever
\* its size, and the model keeps the buffers short
CommandsCap == 2
EventsCap == 1

\* number of samples of a decoded stream, and the duration of one sample in
\* the unit of Position (SampleRate.N and SampleRate.D convert, truncating)
StreamLen == 1
SampleDur == 2

\* the tracks handed to Play, named by Track.ID
EngineTracks == {"A", "B"}

\* levels handed to SetVolume, in tenths: -0.1, 0.0, 1.0 and 1.1
VolumeInputs == {-1, 0, 10, 11}

\* positions handed to Seek, in the unit of Position: the start of the
\* stream, one inside the stream that is not a whole number of samples, one
\* beyond its end
SeekInputs == {0, SampleDur + 1, SampleDur * (StreamLen + 2)}

\* most roots handed to Scan, and most entries WalkDir visits under them
MaxRoots == 2
MaxEntries == 3

\* Scanner.workers.  The program starts 4 workers; the model starts fewer
NumWorkers == 2

\* capacity of the channels files, tracks and errors of Scan.  The program
\* allocates 100, 100 and 10 slots; the model keeps the buffers short
FilesCap == 1
TracksCap == 1
ErrorsCap == 1

\* ------------------------------------------------------------------------
\* Playback engine: state
\* ------------------------------------------------------------------------
VARIABLES
  status,           \* e.state.Status
  currentTrack,     \* e.state.CurrentTrack: Nil or the track handed to Play
  position,         \* e.state.Position
  volume,           \* e.state.Volume, in tenths
  streamer,         \* e.streamer: Nil or the track whose decoded stream is open
  streamPos,        \* sample position of the open stream
  ctrl,             \* e.ctrl: "nil", or its Paused flag as "playing" / "paused"
  volumeFx,         \* e.volume: <<>> for nil, <<g>> for effects.Volume{Volume: g}
  commands,         \* buffered channel e.commands
  events,           \* buffered channel e.events
  eventsClosed,     \* close(e.events) has run
  closeCount,       \* number of times close(e.events) has run
  ctxDone,          \* the context handed to Start is cancelled
  muWriter,         \* e.mu is write-locked (by the command actor)
  muReaders,        \* tasks holding e.mu read-locked
  runPc,            \* position of goroutine run
  runCmd,           \* the command run is processing
  runEvt,           \* the event run is about to send
  tpPc,             \* position of goroutine trackPosition
  speakerStreamer,  \* the track whose Seq(volume, Callback) the speaker plays
  cbPc,             \* the speaker goroutine is inside the end-of-stream callback
  cbTrack,          \* the track captured by that callback
  panicked,         \* Nil, or the task that panicked (send on a closed channel)
  apiRet,           \* what the last API call returned to its caller
  calls,            \* number of API calls made
  trackTitle,       \* the Track objects handed to Play: Track.ID -> Title
  snapRef,          \* the PlaybackState the caller got from GetState:
                    \* "none", "copy" (a fresh struct) or "engine" (e.state)
  snapTrackRef,     \* the Track its CurrentTrack points to: Nil, "copy" (a
                    \* fresh struct) or one of the Track objects
  runOut,           \* types of the events run has published for runCmd
  openStreams,      \* number of decoded streams opened and not yet closed
  failed            \* some Play has failed in os.Open or DecodeAudio

evars == <<status, currentTrack, position, volume, streamer, streamPos, ctrl,
           volumeFx, commands, events, eventsClosed, closeCount, ctxDone,
           muWriter, muReaders, runPc, runCmd, runEvt, tpPc, speakerStreamer,
           cbPc, cbTrack, panicked, apiRet, calls, trackTitle, snapRef,
           snapTrackRef, runOut, openStreams, failed>>

\* ------------------------------------------------------------------------
\* Playback queue: state
\* ------------------------------------------------------------------------
VARIABLES
  tracks,      \* Queue.tracks: sequence of track ids
  index,       \* Queue.index: 0-based cursor
  repeatMode,  \* Queue.repeatMode
  shuffle,     \* Queue.shuffle
  original,    \* Queue.original; <<>> models nil (a saved order has >= 2 entries)
  qop,         \* name of the last queue operation called
  qret,        \* what that operation returned
  qpanic,      \* the last operation panicked (index out of range)
  scen         \* progress of the call script Next,Next,Next,Previous x4 on [A,B,C]

qvars == <<tracks, index, repeatMode, shuffle, original, qop, qret, qpanic, scen>>

\* ------------------------------------------------------------------------
\* Library scanner: state
\* ------------------------------------------------------------------------
VARIABLES
  scanPaths,      \* the roots handed to Scan: for each root the entries that
                  \* filepath.WalkDir visits, in order; <<>> before the call
  scanning,       \* Scan has been called
  scanCtx,        \* the context handed to Scan: "live", "canceled" or "deadline"
  files,          \* buffered channel files (paths named by <<root, entry>>)
  filesClosed,    \* close(files) has run
  results,        \* buffered channel tracks
  resultsCloses,  \* number of times close(tracks) has run
  errs,           \* buffered channel errors (ScanError.Path of each)
  errsCloses,     \* number of times close(errors) has run
  discPc,         \* position of the discovery goroutine
  discAt,         \* <<root, entry>> the walk is at
  workerPc,       \* position of each worker goroutine
  workerFile,     \* the path each worker holds
  closerPc,       \* position of the closer goroutine
  doneAtClose,    \* number of workers that had returned at each close
  scanPanic,      \* a goroutine of Scan panicked (send on a closed channel)
  trackCount,     \* path -> number of tracks sent on tracks for it
  errCount,       \* path -> number of ScanErrors sent on errors for it
  errLost         \* path -> number of ScanErrors dropped because errors was full

svars == <<scanPaths, scanning, scanCtx, files, filesClosed, results,
           resultsCloses, errs, errsCloses, discPc, discAt, workerPc,
           workerFile, closerPc, doneAtClose, scanPanic, trackCount, errCount,
           errLost>>

\* ------------------------------------------------------------------------
\* Audio formats: state
\* ------------------------------------------------------------------------
VARIABLES
  fmtInput,  \* the file path handed to the last call, as directory, stem and
             \* extension; each a sequence of characters
  fmtOp,     \* the function called last: "IsSupported" or "DecodeAudio"
  fmtRet     \* what it returned

fvars == <<fmtInput, fmtOp, fmtRet>>

\* ------------------------------------------------------------------------
\* Library: state
\* ------------------------------------------------------------------------
VARIABLES
  libTracks,    \* Library.Tracks: Track.ID -> the track stored under it
  totalTracks,  \* Library.TotalTracks
  artistIndex,  \* Library.artistIndex: artist -> list of track IDs
  albumIndex,   \* Library.albumIndex
  genreIndex,   \* Library.genreIndex
  libOp,        \* name of the last library operation called
  libRet,       \* what it returned
  libCalls      \* number of library operations called

lvars == <<libTracks, totalTracks, artistIndex, albumIndex, genreIndex, libOp,
           libRet, libCalls>>

\* ------------------------------------------------------------------------
\* UI driver: state
\* ------------------------------------------------------------------------
VARIABLES
  uiPc,   \* where the driver's event command is: "listening" (blocked in
          \* the select of listenForEvents), "advance" (TrackEnded received),
          \* "state" (about to return StateUpdateMsg), "update" (Update has
          \* the message) or "idle" (no listenForEvents command is pending)
  uiEvt   \* Type of the event the command received last

uvars == <<uiPc, uiEvt>>

vars == <<evars, qvars, svars, fvars, lvars, uvars>>

\* the queue as one value
Q == [tracks |-> tracks, index |-> index, repeatMode |-> repeatMode,
      shuffle |-> shuffle, original |-> original]

\* ------------------------------------------------------------------------
\* Slice helpers
\* ------------------------------------------------------------------------
At(s, i) == s[i + 1]

InRange(s, i) == i >= 0 /\ i < Len(s)

\* s with the Go indices i and j exchanged
Swap(s, i, j) == [s EXCEPT ![i + 1] = s[j + 1], ![j + 1] = s[i + 1]]

\* append(s[:i], s[i+1:]...)
RemoveAt(s, i) == SubSeq(s, 1, i) \o SubSeq(s, i + 2, Len(s))

\* smallest Go index whose element is t (the range loops break on the first
\* match); -1 when there is none
RECURSIVE FirstFrom(_, _, _)
FirstFrom(s, t, i) ==
  IF i >= Len(s) THEN -1
  ELSE IF At(s, i) = t THEN i
  ELSE FirstFrom(s, t, i + 1)

IndexOf(s, t) == FirstFrom(s, t, 0)

\* all sequences over S of length lo..hi
SeqsOf(S, lo, hi) == UNION {[1..n -> S] : n \in lo..hi}

\* result of a queue operation: the queue afterwards, the value returned
\* ("panic" when there is none because the call panicked), and whether the
\* call panicked
QRes(q, ret, panic) == [q |-> q, ret |-> ret, panic |-> panic]

\* `return q.tracks[q.index]`
ReturnAtIndex(q) ==
  IF InRange(q.tracks, q.index)
    THEN QRes(q, At(q.tracks, q.index), FALSE)
    ELSE QRes(q, "panic", TRUE)

\* ------------------------------------------------------------------------
\* Playback queue: operations as functions of the queue
\* ------------------------------------------------------------------------
NewQueue ==
  [tracks |-> <<>>, index |-> 0, repeatMode |-> RepeatNone,
   shuffle |-> FALSE, original |-> <<>>]

QueueAdd(q, ts) ==
  QRes([q EXCEPT !.tracks = q.tracks \o ts], Nil, FALSE)

QueueSet(q, ts) ==
  QRes([q EXCEPT !.tracks = ts, !.original = <<>>, !.index = 0], Nil, FALSE)

QueueClear(q) ==
  QRes([q EXCEPT !.tracks = <<>>, !.original = <<>>, !.index = 0], Nil, FALSE)

QueueCurrent(q) ==
  IF Len(q.tracks) = 0 \/ q.index < 0 \/ q.index >= Len(q.tracks)
    THEN Nil
    ELSE At(q.tracks, q.index)

QueueNext(q) ==
  IF Len(q.tracks) = 0 THEN QRes(q, Nil, FALSE)
  ELSE IF q.repeatMode = RepeatOne THEN ReturnAtIndex(q)
  ELSE IF q.repeatMode = RepeatAll
    THEN ReturnAtIndex([q EXCEPT !.index = (q.index + 1) % Len(q.tracks)])
  ELSE IF q.index < Len(q.tracks) - 1
    THEN ReturnAtIndex([q EXCEPT !.index = q.index + 1])
    ELSE QRes(q, Nil, FALSE)

\* Previous that signals "no previous" at the start instead of clamping
QueuePreviousNoClamp(q) ==
  IF Len(q.tracks) = 0 THEN QRes(q, Nil, FALSE)
  ELSE IF q.repeatMode = RepeatOne THEN ReturnAtIndex(q)
  ELSE IF q.repeatMode = RepeatAll
    THEN ReturnAtIndex([q EXCEPT !.index =
           IF q.index - 1 < 0 THEN Len(q.tracks) - 1 ELSE q.index - 1])
  ELSE IF q.index > 0
    THEN ReturnAtIndex([q EXCEPT !.index = q.index - 1])
    ELSE QRes(q, Nil, FALSE)

QueuePrevious(q) ==
  IF Len(q.tracks) = 0 THEN QRes(q, Nil, FALSE)
  ELSE IF q.repeatMode = RepeatOne THEN ReturnAtIndex(q)
  ELSE IF q.repeatMode = RepeatAll
    THEN ReturnAtIndex([q EXCEPT !.index =
           IF q.index - 1 < 0 THEN Len(q.tracks) - 1 ELSE q.index - 1])
  ELSE IF q.index > 0
    THEN ReturnAtIndex([q EXCEPT !.index = q.index - 1])
    ELSE ReturnAtIndex(q)

QueueJumpTo(q, i) ==
  IF i < 0 \/ i >= Len(q.tracks)
    THEN QRes(q, "error", FALSE)
    ELSE QRes([q EXCEPT !.index = i], "ok", FALSE)

\* Remove that deletes the entry and leaves the cursor alone
QueueRemoveNoAdjust(q, i) ==
  IF i < 0 \/ i >= Len(q.tracks)
    THEN QRes(q, "error", FALSE)
    ELSE QRes([q EXCEPT !.tracks = RemoveAt(q.tracks, i)], "ok", FALSE)

QueueRemove(q, i) ==
  IF i < 0 \/ i >= Len(q.tracks)
    THEN QRes(q, "error", FALSE)
    ELSE LET ts == RemoveAt(q.tracks, i)
             idx == IF q.index > i THEN q.index - 1
                    ELSE IF q.index >= Len(ts) /\ Len(ts) > 0 THEN Len(ts) - 1
                    ELSE q.index
         IN QRes([q EXCEPT !.tracks = ts, !.index = idx], "ok", FALSE)

\* the Fisher-Yates loop `for i := n-1; i > 0; i-- { j := rand.Intn(i+1); swap }`
\* js[i] is the value rand.Intn(i+1) returns in iteration i
RECURSIVE FisherYates(_, _, _)
FisherYates(s, i, js) ==
  IF i <= 0 THEN s
  ELSE FisherYates(Swap(s, i, js[i]), i - 1, js)

\* the possible outcomes of the rand.Intn calls of one Shuffle of n tracks
RandChoices(n) == {js \in [1..(n - 1) -> 0..(n - 1)] : \A i \in 1..(n - 1) : js[i] <= i}

QueueShuffle(q, js) ==
  IF Len(q.tracks) <= 1 THEN QRes(q, Nil, FALSE)
  ELSE LET q1 == IF q.original = <<>> THEN [q EXCEPT !.original = q.tracks] ELSE q
       IN IF ~InRange(q.tracks, q.index) THEN QRes(q1, "panic", TRUE)
          ELSE LET current == At(q.tracks, q.index)
                   sh == FisherYates(q.tracks, Len(q.tracks) - 1, js)
                   i == IndexOf(sh, current)
               IN QRes([q1 EXCEPT !.tracks = Swap(sh, 0, i), !.index = 0,
                                  !.shuffle = TRUE], Nil, FALSE)

QueueUnshuffle(q) ==
  IF q.original = <<>> THEN QRes(q, Nil, FALSE)
  ELSE IF ~InRange(q.tracks, q.index) THEN QRes(q, "panic", TRUE)
  ELSE LET current == At(q.tracks, q.index)
           i == IndexOf(q.original, current)
       IN QRes([q EXCEPT !.tracks = q.original, !.original = <<>>,
                         !.shuffle = FALSE,
                         !.index = IF i >= 0 THEN i ELSE q.index], Nil, FALSE)

QueueSetRepeatMode(q, mode) == QRes([q EXCEPT !.repeatMode = mode], Nil, FALSE)

QueueHasNext(q) ==
  IF q.repeatMode = RepeatAll \/ q.repeatMode = RepeatOne
    THEN Len(q.tracks) > 0
    ELSE q.index < Len(q.tracks) - 1

QueueHasPrevious(q) ==
  IF q.repeatMode = RepeatAll \/ q.repeatMode = RepeatOne
    THEN Len(q.tracks) > 0
    ELSE q.index > 0

QueueIsShuffled(q) == q.shuffle

\* ------------------------------------------------------------------------
\* The call script of the RepeatNone scenario
\* ------------------------------------------------------------------------
Script == <<"Next", "Next", "Next", "Previous", "Previous", "Previous", "Previous">>

\* the values the scenario of the specification lists
Expected == <<"B", "C", Nil, "C", "B", "A", "A">>

\* the values the calls return
Returned == <<"B", "C", Nil, "B", "A", "A", "A">>

ScenStart(q) ==
  q.tracks = <<"A", "B", "C">> /\ q.index = 0 /\ q.repeatMode = RepeatNone

\* scen = k >= 1: the queue was [A,B,C] at index 0 in RepeatNone and the
\* first k-1 calls of Script have been made since, and nothing else
ScenStep(op, q2) ==
  IF scen \in 1..Len(Script) /\ op = Script[scen] THEN scen + 1
  ELSE IF ScenStart(q2) THEN 1
  ELSE 0

\* ------------------------------------------------------------------------
\* Playback queue: actions (one per exported method)
\* ------------------------------------------------------------------------
\* a call on the queue: the caller is alive (no earlier call panicked) and
\* the playback engine is not involved
QCall == ~qpanic /\ UNCHANGED <<evars, svars, fvars, lvars, uvars>>

\* the caller calls op and it produces r
Apply(op, r) ==
  /\ tracks' = r.q.tracks
  /\ index' = r.q.index
  /\ repeatMode' = r.q.repeatMode
  /\ shuffle' = r.q.shuffle
  /\ original' = r.q.original
  /\ qop' = op
  /\ qret' = r.ret
  /\ qpanic' = r.panic
  /\ scen' = IF r.panic THEN 0 ELSE ScenStep(op, r.q)

Add ==
  \E ts \in SeqsOf(TrackIds, 1, MaxLen) :
    /\ QCall
    /\ Len(tracks) + Len(ts) <= MaxLen
    /\ Apply("Add", QueueAdd(Q, ts))

Set ==
  \E ts \in SeqsOf(TrackIds, 0, MaxLen) :
    QCall /\ Apply("Set", QueueSet(Q, ts))

\* Set called with the scenario's three tracks in some order
SetScenario ==
  \E ts \in {x \in [1..3 -> ScenarioTracks] : \A i, j \in 1..3 : x[i] = x[j] => i = j} :
    QCall /\ Apply("Set", QueueSet(Q, ts))

Clear == QCall /\ Apply("Clear", QueueClear(Q))

NextTrack == QCall /\ Apply("Next", QueueNext(Q))

Previous == QCall /\ Apply("Previous", QueuePrevious(Q))

JumpTo == \E i \in -1..MaxLen : QCall /\ Apply("JumpTo", QueueJumpTo(Q, i))

Remove == \E i \in -1..MaxLen : QCall /\ Apply("Remove", QueueRemove(Q, i))

Shuffle ==
  \E js \in RandChoices(IF Len(tracks) <= 1 THEN 1 ELSE Len(tracks)) :
    QCall /\ Apply("Shuffle", QueueShuffle(Q, js))

Unshuffle == QCall /\ Apply("Unshuffle", QueueUnshuffle(Q))

SetRepeatMode ==
  \E mode \in {RepeatNone, RepeatOne, RepeatAll} :
    QCall /\ Apply("SetRepeatMode", QueueSetRepeatMode(Q, mode))

\* HasNext and HasPrevious: the caller gets a boolean
HasNext == QCall /\ Apply("HasNext", QRes(Q, QueueHasNext(Q), FALSE))

HasPrevious == QCall /\ Apply("HasPrevious", QRes(Q, QueueHasPrevious(Q), FALSE))

QInit ==
  /\ tracks = NewQueue.tracks
  /\ index = NewQueue.index
  /\ repeatMode = NewQueue.repeatMode
  /\ shuffle = NewQueue.shuffle
  /\ original = NewQueue.original
  /\ qop = "NewQueue"
  /\ qret = Nil
  /\ qpanic = FALSE
  /\ scen = 0

QNext ==
  \/ Add
  \/ Set
  \/ Clear
  \/ NextTrack
  \/ Previous
  \/ JumpTo
  \/ Remove
  \/ Shuffle
  \/ Unshuffle
  \/ SetRepeatMode
  \/ HasNext
  \/ HasPrevious

\* the queue driven through Set on three distinct tracks, SetRepeatMode,
\* JumpTo, Next and Previous only
ScenarioNext ==
  \/ SetScenario
  \/ Clear
  \/ NextTrack
  \/ Previous
  \/ JumpTo
  \/ SetRepeatMode

\* ------------------------------------------------------------------------
\* Playback engine: values
\* ------------------------------------------------------------------------
\* api.AudioCommand: Type and the payload of that type; seq is the rank of
\* the send among the calls made on the engine (0 before the send)
Cmd(type, track, level, pos) ==
  [type |-> type, track |-> track, level |-> level, pos |-> pos, seq |-> 0]

NoCmd == Cmd("none", Nil, 0, 0)

\* api.AudioEvent: Type and payload (a track, a position, the operation and
\* track of a PlayerError; StateChange carries the pointer e.state)
Evt(type, track, pos, op) ==
  [type |-> type, track |-> track, pos |-> pos, op |-> op]

NoEvt == Evt("none", Nil, 0, "")

\* beep.SampleRate.N: duration to number of samples, truncating
SamplesOf(d) == d \div SampleDur

\* beep.SampleRate.D: number of samples to duration
DurationOf(n) == n * SampleDur

\* the gain the engine hands to effects.Volume for a level in tenths
GainOf(level) == level * 2 - 10

Alive == panicked = Nil

\* e.mu.Lock() can be taken / e.mu.RLock() can be taken
CanLock == ~muWriter /\ muReaders = {}
CanRLock == ~muWriter

\* the speaker's own mutex is held by the speaker goroutine while it runs the
\* callback inside Mixer.Stream; Clear, Init and Play take that mutex
SpeakerFree == cbPc = "idle"

\* ------------------------------------------------------------------------
\* Playback engine: construction, Start and cancellation
\* ------------------------------------------------------------------------
NewAudioEngine ==
  /\ status = StatusStopped
  /\ currentTrack = Nil
  /\ position = 0
  /\ volume = 5
  /\ streamer = Nil
  /\ streamPos = 0
  /\ ctrl = "nil"
  /\ volumeFx = <<>>
  /\ commands = <<>>
  /\ events = <<>>
  /\ eventsClosed = FALSE
  /\ closeCount = 0
  /\ muWriter = FALSE
  /\ muReaders = {}
  /\ speakerStreamer = Nil
  /\ cbPc = "idle"
  /\ cbTrack = Nil

EInit ==
  /\ NewAudioEngine
  /\ ctxDone = FALSE
  /\ runPc = "new"
  /\ runCmd = NoCmd
  /\ runEvt = NoEvt
  /\ tpPc = "new"
  /\ panicked = Nil
  /\ apiRet = "none"
  /\ calls = 0
  /\ trackTitle = [t \in EngineTracks |-> "title"]
  /\ snapRef = "none"
  /\ snapTrackRef = Nil
  /\ runOut = <<>>
  /\ openStreams = 0
  /\ failed = FALSE

\* everything but the goroutine positions
UnchangedSession ==
  UNCHANGED <<status, currentTrack, position, volume, streamer, streamPos,
              ctrl, volumeFx, speakerStreamer>>

UnchangedChannels == UNCHANGED <<commands, events, eventsClosed, closeCount>>

UnchangedRun == UNCHANGED <<runPc, runCmd, runEvt, runOut, openStreams, failed>>

UnchangedSpeakerTask == UNCHANGED <<cbPc, cbTrack>>

UnchangedLock == UNCHANGED <<muWriter, muReaders>>

UnchangedApi == UNCHANGED <<apiRet, calls, trackTitle, snapRef, snapTrackRef>>

Start ==
  /\ Alive /\ UNCHANGED <<qvars, svars, fvars, lvars, uvars>>
  /\ runPc = "new"
  /\ runPc' = "select"
  /\ tpPc' = "idle"
  /\ UnchangedSession /\ UnchangedChannels /\ UnchangedLock /\ UnchangedApi
  /\ UnchangedSpeakerTask
  /\ UNCHANGED <<runCmd, runEvt, ctxDone, panicked>>
  /\ UNCHANGED <<runOut, openStreams, failed>>

Cancel ==
  /\ Alive /\ UNCHANGED <<qvars, svars, fvars, lvars, uvars>>
  /\ ~ctxDone
  /\ ctxDone' = TRUE
  /\ UnchangedSession /\ UnchangedChannels /\ UnchangedLock /\ UnchangedApi
  /\ UnchangedSpeakerTask /\ UnchangedRun
  /\ UNCHANGED <<tpPc, panicked>>

\* ------------------------------------------------------------------------
\* Playback engine: the Player interface (called by the driver)
\* ------------------------------------------------------------------------
\* `e.commands <- cmd; return nil`: the caller is blocked while the buffer
\* is full
Enqueue(cmd) ==
  /\ Len(commands) < CommandsCap
  /\ commands' = Append(commands, [cmd EXCEPT !.seq = calls + 1])
  /\ apiRet' = "ok"

\* the frame of an API call
ApiFrame ==
  /\ Alive /\ UNCHANGED <<qvars, svars, fvars, lvars, uvars>>
  /\ calls < MaxCalls
  /\ calls' = calls + 1
  /\ UNCHANGED <<trackTitle, snapRef, snapTrackRef>>
  /\ UnchangedSession /\ UnchangedLock /\ UnchangedRun /\ UnchangedSpeakerTask
  /\ UNCHANGED <<events, eventsClosed, closeCount, ctxDone, tpPc, panicked>>

\* Play without the nil test: every call is enqueued
PlayCallNoNilTest(track) ==
  /\ ApiFrame
  /\ Enqueue(Cmd("Play", track, 0, 0))

PlayCall(track) ==
  /\ ApiFrame
  /\ IF track = Nil
       THEN apiRet' = "TrackNotFound" /\ UNCHANGED commands
       ELSE Enqueue(Cmd("Play", track, 0, 0))

Play == \E track \in EngineTracks \cup {Nil} : PlayCall(track)

Pause == ApiFrame /\ Enqueue(Cmd("Pause", Nil, 0, 0))

Resume == ApiFrame /\ Enqueue(Cmd("Resume", Nil, 0, 0))

Stop == ApiFrame /\ Enqueue(Cmd("Stop", Nil, 0, 0))

Seek == \E pos \in SeekInputs : ApiFrame /\ Enqueue(Cmd("Seek", Nil, 0, pos))

\* SetVolume that tests the lower limit only
SetVolumeCallNoUpperLimit(level) ==
  /\ ApiFrame
  /\ IF level < 0
       THEN apiRet' = "InvalidVolume" /\ UNCHANGED commands
       ELSE Enqueue(Cmd("Volume", Nil, level, 0))

SetVolumeCall(level) ==
  /\ ApiFrame
  /\ IF level < 0 \/ level > 10
       THEN apiRet' = "InvalidVolume" /\ UNCHANGED commands
       ELSE Enqueue(Cmd("Volume", Nil, level, 0))

SetVolume == \E level \in VolumeInputs : SetVolumeCall(level)

\* ------------------------------------------------------------------------
\* Playback engine: goroutine run (the command actor)
\* ------------------------------------------------------------------------
\* the frame of a step of run that touches neither channel nor the lock
RunFrame ==
  /\ Alive /\ UNCHANGED <<qvars, svars, fvars, lvars, uvars>>
  /\ UnchangedApi /\ UnchangedSpeakerTask
  /\ UNCHANGED <<ctxDone, tpPc, panicked>>

\* where run goes when it has received cmd
Dispatch(cmd) ==
  CASE cmd.type = "Play" -> "play_stop"
    [] cmd.type = "Pause" -> "pause"
    [] cmd.type = "Resume" -> "resume"
    [] cmd.type = "Stop" -> "stop"
    [] cmd.type = "Volume" -> "volume"
    [] cmd.type = "Seek" -> "seek"

\* select: case <-ctx.Done()
RunCtxDone ==
  /\ RunFrame
  /\ runPc = "select"
  /\ ctxDone
  /\ runPc' = "cleanup"
  /\ UnchangedSession /\ UnchangedChannels /\ UnchangedLock
  /\ UNCHANGED <<runCmd, runEvt>>
  /\ UNCHANGED <<runOut, openStreams, failed>>

\* run that takes the newest waiting command first
RunReceiveNewestFirst ==
  /\ RunFrame
  /\ runPc = "select"
  /\ commands # <<>>
  /\ runCmd' = commands[Len(commands)]
  /\ commands' = SubSeq(commands, 1, Len(commands) - 1)
  /\ runPc' = Dispatch(commands[Len(commands)])
  /\ UnchangedSession /\ UnchangedLock
  /\ UNCHANGED <<events, eventsClosed, closeCount, runEvt>>
  /\ runOut' = <<>>
  /\ UNCHANGED <<openStreams, failed>>

\* select: case cmd := <-e.commands
RunReceive ==
  /\ RunFrame
  /\ runPc = "select"
  /\ commands # <<>>
  /\ runCmd' = Head(commands)
  /\ commands' = Tail(commands)
  /\ runPc' = Dispatch(Head(commands))
  /\ UnchangedSession /\ UnchangedLock
  /\ UNCHANGED <<events, eventsClosed, closeCount, runEvt>>
  /\ runOut' = <<>>
  /\ UNCHANGED <<openStreams, failed>>

\* stopPlayback: e.mu.Lock()
StopPlaybackLock ==
  /\ RunFrame
  /\ runPc \in {"play_stop", "stop", "cleanup"}
  /\ CanLock
  /\ muWriter' = TRUE
  /\ runPc' = CASE runPc = "play_stop" -> "play_stopping"
                [] runPc = "stop" -> "stopping"
                [] runPc = "cleanup" -> "cleaning"
  /\ UnchangedSession /\ UnchangedChannels
  /\ UNCHANGED <<muReaders, runCmd, runEvt>>
  /\ UNCHANGED <<runOut, openStreams, failed>>

\* stopPlayback that drops e.streamer without calling Close on it
StopPlaybackNoClose ==
  /\ RunFrame
  /\ runPc \in {"play_stopping", "stopping", "cleaning"}
  /\ SpeakerFree
  /\ speakerStreamer' = Nil
  /\ streamer' = Nil
  /\ ctrl' = "nil"
  /\ volumeFx' = <<>>
  /\ status' = StatusStopped
  /\ position' = 0
  /\ muWriter' = FALSE
  /\ runPc' = CASE runPc = "play_stopping" -> "play_open"
                [] runPc = "stopping" -> "send"
                [] runPc = "cleaning" -> "close"
  /\ runEvt' = IF runPc = "stopping" THEN Evt("StateChange", Nil, 0, "") ELSE runEvt
  /\ UnchangedChannels
  /\ UNCHANGED <<currentTrack, volume, streamPos, muReaders, runCmd>>
  /\ openStreams' = openStreams
  /\ UNCHANGED <<runOut, failed>>

\* stopPlayback: speaker.Clear() ... e.state.Position = 0, and the deferred
\* e.mu.Unlock()
StopPlayback ==
  /\ RunFrame
  /\ runPc \in {"play_stopping", "stopping", "cleaning"}
  /\ SpeakerFree
  /\ speakerStreamer' = Nil
  /\ streamer' = Nil
  /\ ctrl' = "nil"
  /\ volumeFx' = <<>>
  /\ status' = StatusStopped
  /\ position' = 0
  /\ muWriter' = FALSE
  /\ runPc' = CASE runPc = "play_stopping" -> "play_open"
                [] runPc = "stopping" -> "send"
                [] runPc = "cleaning" -> "close"
  /\ runEvt' = IF runPc = "stopping" THEN Evt("StateChange", Nil, 0, "") ELSE runEvt
  /\ UnchangedChannels
  /\ UNCHANGED <<currentTrack, volume, streamPos, muReaders, runCmd>>
  /\ openStreams' = IF streamer # Nil THEN openStreams - 1 ELSE openStreams
  /\ UNCHANGED <<runOut, failed>>

\* playTrack: os.Open and DecodeAudio, either of which may fail
PlayOpen ==
  /\ RunFrame
  /\ runPc = "play_open"
  /\ \E outcome \in {"ok", "open", "decode"} :
       IF outcome = "ok"
         THEN /\ runPc' = "play_set"
              /\ openStreams' = openStreams + 1
              /\ UNCHANGED <<runEvt, failed>>
         ELSE /\ runPc' = "send"
              /\ runEvt' = Evt("Error", runCmd.track, 0, outcome)
              /\ failed' = TRUE
              /\ UNCHANGED openStreams
  /\ UnchangedSession /\ UnchangedChannels /\ UnchangedLock
  /\ UNCHANGED runCmd
  /\ UNCHANGED <<runOut>>

\* playTrack: the locked block that installs the new session
PlaySet ==
  /\ RunFrame
  /\ runPc = "play_set"
  /\ CanLock
  /\ streamer' = runCmd.track
  /\ streamPos' = 0
  /\ ctrl' = "playing"
  /\ volumeFx' = <<GainOf(volume)>>
  /\ currentTrack' = runCmd.track
  /\ status' = StatusPlaying
  /\ position' = 0
  /\ runPc' = "play_speaker"
  /\ UnchangedChannels /\ UnchangedLock
  /\ UNCHANGED <<volume, speakerStreamer, runCmd, runEvt>>
  /\ UNCHANGED <<runOut, openStreams, failed>>

\* playTrack: speaker.Init, which may fail, then
\* speaker.Play(beep.Seq(e.volume, beep.Callback(...)))
PlaySpeaker ==
  /\ RunFrame
  /\ runPc = "play_speaker"
  /\ SpeakerFree
  /\ \E ok \in BOOLEAN :
       IF ok
         THEN /\ speakerStreamer' = runCmd.track
              /\ runEvt' = Evt("TrackStarted", runCmd.track, 0, "")
         ELSE /\ runEvt' = Evt("Error", runCmd.track, 0, "speaker_init")
              /\ UNCHANGED speakerStreamer
  /\ runPc' = "send"
  /\ UnchangedChannels /\ UnchangedLock
  /\ UNCHANGED <<status, currentTrack, position, volume, streamer, streamPos,
                 ctrl, volumeFx, runCmd>>
  /\ UNCHANGED <<runOut, openStreams, failed>>

\* case api.CmdPause: the locked block
RunPause ==
  /\ RunFrame
  /\ runPc = "pause"
  /\ CanLock
  /\ IF ctrl # "nil"
       THEN ctrl' = "paused" /\ status' = StatusPaused
       ELSE UNCHANGED <<ctrl, status>>
  /\ runEvt' = Evt("StateChange", Nil, 0, "")
  /\ runPc' = "send"
  /\ UnchangedChannels /\ UnchangedLock
  /\ UNCHANGED <<currentTrack, position, volume, streamer, streamPos,
                 volumeFx, speakerStreamer, runCmd>>
  /\ UNCHANGED <<runOut, openStreams, failed>>

\* Resume that clears the pause flag of e.ctrl and leaves the status
RunResumeKeepsStatus ==
  /\ RunFrame
  /\ runPc = "resume"
  /\ CanLock
  /\ IF ctrl # "nil"
       THEN ctrl' = "playing" /\ UNCHANGED status
       ELSE UNCHANGED <<ctrl, status>>
  /\ runEvt' = Evt("StateChange", Nil, 0, "")
  /\ runPc' = "send"
  /\ UnchangedChannels /\ UnchangedLock
  /\ UNCHANGED <<currentTrack, position, volume, streamer, streamPos,
                 volumeFx, speakerStreamer, runCmd>>
  /\ UNCHANGED <<runOut, openStreams, failed>>

\* case api.CmdResume: the locked block
RunResume ==
  /\ RunFrame
  /\ runPc = "resume"
  /\ CanLock
  /\ IF ctrl # "nil"
       THEN ctrl' = "playing" /\ status' = StatusPlaying
       ELSE UNCHANGED <<ctrl, status>>
  /\ runEvt' = Evt("StateChange", Nil, 0, "")
  /\ runPc' = "send"
  /\ UnchangedChannels /\ UnchangedLock
  /\ UNCHANGED <<currentTrack, position, volume, streamer, streamPos,
                 volumeFx, speakerStreamer, runCmd>>
  /\ UNCHANGED <<runOut, openStreams, failed>>

\* CmdVolume that also rewinds the reported position
RunVolumeRewinds ==
  /\ RunFrame
  /\ runPc = "volume"
  /\ CanLock
  /\ volumeFx' = IF volumeFx # <<>> THEN <<GainOf(runCmd.level)>> ELSE volumeFx
  /\ volume' = runCmd.level
  /\ position' = 0
  /\ runPc' = "select"
  /\ UnchangedChannels /\ UnchangedLock
  /\ UNCHANGED <<status, currentTrack, streamer, streamPos, ctrl,
                 speakerStreamer, runCmd, runEvt>>
  /\ UNCHANGED <<runOut, openStreams, failed>>

\* case api.CmdVolume
RunVolume ==
  /\ RunFrame
  /\ runPc = "volume"
  /\ CanLock
  /\ volumeFx' = IF volumeFx # <<>> THEN <<GainOf(runCmd.level)>> ELSE volumeFx
  /\ volume' = runCmd.level
  /\ runPc' = "select"
  /\ UnchangedChannels /\ UnchangedLock
  /\ UNCHANGED <<status, currentTrack, position, streamer, streamPos, ctrl,
                 speakerStreamer, runCmd, runEvt>>
  /\ UNCHANGED <<runOut, openStreams, failed>>

\* case api.CmdSeek: seekTo.  streamer.Seek fails outside the stream and may
\* fail on I/O
RunSeek ==
  /\ RunFrame
  /\ runPc = "seek"
  /\ CanLock
  /\ \E ok \in BOOLEAN :
       IF streamer # Nil /\ ok /\ SamplesOf(runCmd.pos) <= StreamLen
         THEN streamPos' = SamplesOf(runCmd.pos) /\ position' = runCmd.pos
         ELSE UNCHANGED <<streamPos, position>>
  /\ runPc' = "select"
  /\ UnchangedChannels /\ UnchangedLock
  /\ UNCHANGED <<status, currentTrack, volume, streamer, ctrl, volumeFx,
                 speakerStreamer, runCmd, runEvt>>
  /\ UNCHANGED <<runOut, openStreams, failed>>

\* `e.events <- event` in run and playTrack: blocks while the buffer is full
RunSend ==
  /\ Alive /\ UNCHANGED <<qvars, svars, fvars, lvars, uvars>>
  /\ runPc = "send"
  /\ IF eventsClosed
       THEN panicked' = "run" /\ UNCHANGED <<events, runPc, runOut>>
       ELSE /\ Len(events) < EventsCap
            /\ events' = Append(events, runEvt)
            /\ runOut' = Append(runOut, runEvt.type)
            /\ runPc' = "select"
            /\ UNCHANGED panicked
  /\ UnchangedSession /\ UnchangedLock /\ UnchangedApi /\ UnchangedSpeakerTask
  /\ UNCHANGED <<commands, eventsClosed, closeCount, ctxDone, tpPc, runCmd, runEvt>>
  /\ UNCHANGED <<openStreams, failed>>

\* cleanup: close(e.events), and run returns
CloseEvents ==
  /\ Alive /\ UNCHANGED <<qvars, svars, fvars, lvars, uvars>>
  /\ runPc = "close"
  /\ IF eventsClosed
       THEN panicked' = "run" /\ UNCHANGED <<eventsClosed, closeCount, runPc>>
       ELSE /\ eventsClosed' = TRUE
            /\ closeCount' = closeCount + 1
            /\ runPc' = "done"
            /\ UNCHANGED panicked
  /\ UnchangedSession /\ UnchangedLock /\ UnchangedApi /\ UnchangedSpeakerTask
  /\ UNCHANGED <<commands, events, ctxDone, tpPc, runCmd, runEvt>>
  /\ UNCHANGED <<runOut, openStreams, failed>>

\* ------------------------------------------------------------------------
\* Playback engine: goroutine trackPosition (the position sampler)
\* ------------------------------------------------------------------------
\* select: case <-ctx.Done()
SamplerCtxDone ==
  /\ Alive /\ UNCHANGED <<qvars, svars, fvars, lvars, uvars>>
  /\ tpPc = "idle"
  /\ ctxDone
  /\ tpPc' = "done"
  /\ UnchangedSession /\ UnchangedChannels /\ UnchangedLock /\ UnchangedApi
  /\ UnchangedSpeakerTask /\ UnchangedRun
  /\ UNCHANGED <<ctxDone, panicked>>

\* select: case <-ticker.C; RLock, test, sample.  When there is nothing to
\* sample the RUnlock follows at once
SamplerTick ==
  /\ Alive /\ UNCHANGED <<qvars, svars, fvars, lvars, uvars>>
  /\ tpPc = "idle"
  /\ CanRLock
  /\ IF status = StatusPlaying /\ streamer # Nil
       THEN /\ position' = DurationOf(streamPos)
            /\ muReaders' = muReaders \cup {"trackPosition"}
            /\ tpPc' = "sending"
       ELSE UNCHANGED <<position, muReaders, tpPc>>
  /\ UnchangedChannels /\ UnchangedApi /\ UnchangedSpeakerTask /\ UnchangedRun
  /\ UNCHANGED <<status, currentTrack, volume, streamer, streamPos, ctrl,
                 volumeFx, speakerStreamer, muWriter, ctxDone, panicked>>

\* `e.events <- PositionUpdate` with the read lock held, then RUnlock
SamplerSend ==
  /\ Alive /\ UNCHANGED <<qvars, svars, fvars, lvars, uvars>>
  /\ tpPc = "sending"
  /\ IF eventsClosed
       THEN panicked' = "trackPosition" /\ UNCHANGED <<events, tpPc, muReaders>>
       ELSE /\ Len(events) < EventsCap
            /\ events' = Append(events, Evt("PositionUpdate", Nil, position, ""))
            /\ muReaders' = muReaders \ {"trackPosition"}
            /\ tpPc' = "idle"
            /\ UNCHANGED panicked
  /\ UnchangedSession /\ UnchangedApi /\ UnchangedSpeakerTask /\ UnchangedRun
  /\ UNCHANGED <<commands, eventsClosed, closeCount, muWriter, ctxDone>>

\* ------------------------------------------------------------------------
\* Playback engine: the speaker goroutine and the end-of-stream callback
\* ------------------------------------------------------------------------
\* the speaker pulls one sample through e.volume and e.ctrl
SpeakerStream ==
  /\ Alive /\ UNCHANGED <<qvars, svars, fvars, lvars, uvars>>
  /\ speakerStreamer # Nil
  /\ cbPc = "idle"
  /\ ctrl = "playing"
  /\ streamPos < StreamLen
  /\ streamPos' = streamPos + 1
  /\ UnchangedChannels /\ UnchangedLock /\ UnchangedApi /\ UnchangedRun
  /\ UnchangedSpeakerTask
  /\ UNCHANGED <<status, currentTrack, position, volume, streamer, ctrl,
                 volumeFx, speakerStreamer, ctxDone, tpPc, panicked>>

\* a Seq that calls the closure before the stream is exhausted
CallbackFireEarly ==
  /\ Alive /\ UNCHANGED <<qvars, svars, fvars, lvars, uvars>>
  /\ speakerStreamer # Nil
  /\ cbPc = "idle"
  /\ ctrl = "playing"
  /\ cbPc' = "sending"
  /\ cbTrack' = speakerStreamer
  /\ UnchangedSession /\ UnchangedChannels /\ UnchangedLock /\ UnchangedApi
  /\ UnchangedRun
  /\ UNCHANGED <<ctxDone, tpPc, panicked>>

\* the stream is exhausted: Seq moves on to the Callback streamer, which
\* calls the closure of playTrack
CallbackFire ==
  /\ Alive /\ UNCHANGED <<qvars, svars, fvars, lvars, uvars>>
  /\ speakerStreamer # Nil
  /\ cbPc = "idle"
  /\ ctrl = "playing"
  /\ streamPos >= StreamLen
  /\ cbPc' = "sending"
  /\ cbTrack' = speakerStreamer
  /\ UnchangedSession /\ UnchangedChannels /\ UnchangedLock /\ UnchangedApi
  /\ UnchangedRun
  /\ UNCHANGED <<ctxDone, tpPc, panicked>>

\* the closure: `e.events <- TrackEnded`; the drained Seq leaves the mixer
CallbackSend ==
  /\ Alive /\ UNCHANGED <<qvars, svars, fvars, lvars, uvars>>
  /\ cbPc = "sending"
  /\ IF eventsClosed
       THEN panicked' = "callback" /\ UNCHANGED <<events, cbPc, cbTrack, speakerStreamer>>
       ELSE /\ Len(events) < EventsCap
            /\ events' = Append(events, Evt("TrackEnded", cbTrack, 0, ""))
            /\ cbPc' = "idle"
            /\ cbTrack' = Nil
            /\ speakerStreamer' = Nil
            /\ UNCHANGED panicked
  /\ UnchangedLock /\ UnchangedApi /\ UnchangedRun
  /\ UNCHANGED <<status, currentTrack, position, volume, streamer, streamPos,
                 ctrl, volumeFx, commands, eventsClosed, closeCount, ctxDone, tpPc>>

\* ------------------------------------------------------------------------
\* Playback engine: the consumer of Events()
\* ------------------------------------------------------------------------
\* `event := <-m.audioEngine.Events()`
Consume ==
  /\ Alive /\ UNCHANGED <<qvars, svars, fvars, lvars, uvars>>
  /\ events # <<>>
  /\ events' = Tail(events)
  /\ UnchangedSession /\ UnchangedLock /\ UnchangedApi /\ UnchangedRun
  /\ UnchangedSpeakerTask
  /\ UNCHANGED <<commands, eventsClosed, closeCount, ctxDone, tpPc, panicked>>

\* ------------------------------------------------------------------------
\* Playback engine: GetState and a caller that writes to what it returns
\* ------------------------------------------------------------------------
\* GetState that copies the state but not the track it points to
GetStateShared ==
  [state |-> "copy", track |-> currentTrack]

\* the pointers GetState returns: `state := *e.state` is a fresh struct, and
\* so is `track := *e.state.CurrentTrack` when there is a current track.
\* (The slices PlaybackState.Queue and Track.CoverArt would be shared by these
\* copies, but the program never assigns either: they are nil throughout.)

GetStateResult ==
  [state |-> "copy", track |-> IF currentTrack # Nil THEN "copy" ELSE Nil]

\* what GetState returns, by value: the fields of the state and of the
\* current track
GetStateValue ==
  [Status |-> status, Position |-> position, Volume |-> volume,
   CurrentTrack |-> IF currentTrack = Nil THEN <<>>
                    ELSE <<currentTrack, trackTitle[currentTrack]>>]

\* the caller calls GetState (under the read lock) and assigns to every
\* field of the snapshot and of its CurrentTrack, as TestGetState does with
\* state.Volume = 0.99.  A write lands in the struct the pointer designates
GetStateMutate ==
  /\ Alive /\ UNCHANGED <<qvars, svars, fvars, lvars, uvars>>
  /\ calls < MaxCalls
  /\ calls' = calls + 1
  /\ CanRLock
  /\ LET r == GetStateResult
     IN /\ snapRef' = r.state
        /\ snapTrackRef' = r.track
        /\ IF r.state = "engine"
             THEN /\ volume' = 9
                  /\ status' = StatusPaused
                  /\ position' = 1
                  /\ currentTrack' = Nil
             ELSE UNCHANGED <<volume, status, position, currentTrack>>
        /\ IF r.track \in EngineTracks
             THEN trackTitle' = [trackTitle EXCEPT ![r.track] = "changed"]
             ELSE UNCHANGED trackTitle
  /\ UnchangedChannels /\ UnchangedLock /\ UnchangedRun /\ UnchangedSpeakerTask
  /\ UNCHANGED <<streamer, streamPos, ctrl, volumeFx, speakerStreamer, ctxDone,
                 tpPc, panicked, apiRet>>

ENext ==
  \/ Start
  \/ Cancel
  \/ Play
  \/ Pause
  \/ Resume
  \/ Stop
  \/ Seek
  \/ SetVolume
  \/ RunCtxDone
  \/ RunReceive
  \/ StopPlaybackLock
  \/ StopPlayback
  \/ PlayOpen
  \/ PlaySet
  \/ PlaySpeaker
  \/ RunPause
  \/ RunResume
  \/ RunVolume
  \/ RunSeek
  \/ RunSend
  \/ CloseEvents
  \/ SamplerCtxDone
  \/ SamplerTick
  \/ SamplerSend
  \/ SpeakerStream
  \/ CallbackFire
  \/ CallbackSend
  \/ Consume
  \/ GetStateMutate

\* the steps of the engine's own tasks
RunStep ==
  \/ RunCtxDone
  \/ RunReceive
  \/ StopPlaybackLock
  \/ StopPlayback
  \/ PlayOpen
  \/ PlaySet
  \/ PlaySpeaker
  \/ RunPause
  \/ RunResume
  \/ RunVolume
  \/ RunSeek
  \/ RunSend
  \/ CloseEvents

SamplerStep == SamplerCtxDone \/ SamplerTick \/ SamplerSend

SpeakerStep == SpeakerStream \/ CallbackFire \/ CallbackSend

\* ------------------------------------------------------------------------
\* UI driver: the event command of the bubbletea Model
\* ------------------------------------------------------------------------
\* Model.Init starts one listenForEvents command.  The driver's own context
\* is cancelled only by its quit key, after which the program exits; the
\* model follows the driver while it runs.
UInit ==
  /\ uiPc = "listening"
  /\ uiEvt = NoEvt.type

\* the value a receive from the closed, drained channel yields: the zero
\* AudioEvent, whose Type 0 is EventTrackStarted
ZeroEvt == Evt("TrackStarted", Nil, 0, "")

\* where listenForEvents goes with an event of this type: TrackEnded is
\* followed by the auto-advance, StateChange, TrackStarted and PositionUpdate
\* by `return StateUpdateMsg{...}`, anything else falls out of the switch to
\* `return nil`, a message bubbletea discards
AfterEvent(type) ==
  CASE type = "TrackEnded" -> "advance"
    [] type \in {"StateChange", "TrackStarted", "PositionUpdate"} -> "state"
    [] OTHER -> "idle"

\* the frame of a step of the driver's event command
ListenFrame ==
  /\ Alive /\ UNCHANGED <<qvars, svars, fvars, lvars>>
  /\ UnchangedSession /\ UnchangedLock /\ UnchangedRun /\ UnchangedSpeakerTask
  /\ UNCHANGED <<eventsClosed, closeCount, ctxDone, tpPc, panicked>>
  /\ UNCHANGED <<trackTitle, snapRef, snapTrackRef>>

\* listenForEvents: `case event := <-m.audioEngine.Events()`
ListenReceive ==
  /\ ListenFrame
  /\ uiPc = "listening"
  /\ events # <<>> \/ eventsClosed
  /\ LET event == IF events # <<>> THEN Head(events) ELSE ZeroEvt
     IN /\ uiEvt' = event.type
        /\ uiPc' = AfterEvent(event.type)
  /\ events' = IF events # <<>> THEN Tail(events) ELSE events
  /\ UNCHANGED <<commands, apiRet, calls>>

\* listenForEvents, case EventTrackEnded: `if next := m.queue.Next();
\* next != nil { m.audioEngine.Play(next) }`; Play blocks while the command
\* buffer is full
ListenAdvance ==
  /\ ListenFrame
  /\ uiPc = "advance"
  /\ \E next \in EngineTracks \cup {Nil} :
       IF next = Nil
         THEN UNCHANGED <<commands, apiRet, calls>>
         ELSE /\ calls < MaxCalls
              /\ calls' = calls + 1
              /\ Enqueue(Cmd("Play", next, 0, 0))
  /\ uiPc' = "state"
  /\ UNCHANGED <<events, uiEvt>>

\* listenForEvents: `return StateUpdateMsg{State: m.audioEngine.GetState()}`;
\* GetState takes the read lock
ListenState ==
  /\ ListenFrame
  /\ uiPc = "state"
  /\ CanRLock
  /\ uiPc' = "update"
  /\ UNCHANGED <<commands, events, apiRet, calls, uiEvt>>

\* Model.Update, case StateUpdateMsg: show the state and start the next
\* listenForEvents command
Update ==
  /\ ListenFrame
  /\ uiPc = "update"
  /\ uiPc' = "listening"
  /\ UNCHANGED <<commands, events, apiRet, calls, uiEvt>>

\* the engine with the program's own driver as the reader of Events().  The
\* driver's keys send Play, Pause, Resume and Stop; the volume and seek
\* commands publish no event and are left out
DNext ==
  \/ Start
  \/ Cancel
  \/ Play
  \/ Pause
  \/ Resume
  \/ Stop
  \/ RunCtxDone
  \/ RunReceive
  \/ StopPlaybackLock
  \/ StopPlayback
  \/ PlayOpen
  \/ PlaySet
  \/ PlaySpeaker
  \/ RunPause
  \/ RunResume
  \/ RunSend
  \/ CloseEvents
  \/ SamplerCtxDone
  \/ SamplerTick
  \/ SamplerSend
  \/ SpeakerStream
  \/ CallbackFire
  \/ CallbackSend
  \/ ListenReceive
  \/ ListenAdvance
  \/ ListenState
  \/ Update

\* ------------------------------------------------------------------------
\* Library scanner: Scan and its goroutines
\* ------------------------------------------------------------------------
\* Scanner.formats
Formats == {".mp3", ".wav", ".flac"}

\* strings.ToLower on the extensions the walked entries carry
ToLower(ext) ==
  CASE ext = ".MP3" -> ".mp3"
    [] ext = ".WAV" -> ".wav"
    [] ext = ".FLAC" -> ".flac"
    [] OTHER -> ext

\* Scanner.isSupported comparing the extension as it is spelled
isSupportedNoLower(ext) == \E format \in Formats : ext = format

\* Scanner.isSupported, on the extension filepath.Ext returns for the path
isSupported(ext) == \E format \in Formats : ToLower(ext) = format

\* one entry of a walk: its extension, whether it is a directory, whether
\* WalkDir calls back with an error for it, and whether os.Open fails on it
Entry(ext, isDir, walkErr, readErr) ==
  [ext |-> ext, isDir |-> isDir, walkErr |-> walkErr, readErr |-> readErr]

Song == Entry(".mp3", FALSE, FALSE, FALSE)
Notes == Entry(".txt", FALSE, FALSE, FALSE)
Locked == Entry(".WAV", FALSE, FALSE, TRUE)
Denied == Entry("", TRUE, TRUE, FALSE)

WalkEntries == {Song, Notes, Locked, Denied}

\* one root holding three supported and two unsupported files, and a
\* directory whose name ends in a supported extension
ScenarioWalk ==
  << <<Entry(".mp3", TRUE, FALSE, FALSE), Song, Notes,
       Entry(".FLAC", FALSE, FALSE, FALSE), Entry(".jpg", FALSE, FALSE, FALSE),
       Entry(".wav", FALSE, FALSE, FALSE)>> >>

\* the lists of at most k roots under which WalkDir visits at most n entries
\* in all; it visits at least the root itself
RECURSIVE Walks(_, _)
Walks(k, n) ==
  IF k = 0 \/ n = 0
    THEN {<<>>}
    ELSE {<<>>} \cup
         UNION {{<<root>> \o rest : rest \in Walks(k - 1, n - Len(root))} :
                  root \in SeqsOf(WalkEntries, 1, n)}

\* the paths handed to Scan
ScanInputs == Walks(MaxRoots, MaxEntries) \cup {ScenarioWalk}

\* the paths of a walk, <<root, entry>>; <<root, 0>> names the root in the
\* ScanError sent when WalkDir itself fails
Paths(p) ==
  UNION {{<<r, e>> : e \in 0..Len(p[r])} : r \in 1..Len(p)}

EntryAt(path) == scanPaths[path[1]][path[2]]

Workers == 1..NumWorkers

\* the path variable of a worker that holds no path
NoPath == <<0, 0>>

SInit ==
  /\ scanPaths = <<>>
  /\ scanning = FALSE
  /\ scanCtx = "live"
  /\ files = <<>>
  /\ filesClosed = FALSE
  /\ results = <<>>
  /\ resultsCloses = 0
  /\ errs = <<>>
  /\ errsCloses = 0
  /\ discPc = "idle"
  /\ discAt = <<1, 0>>
  /\ workerPc = [w \in Workers |-> "idle"]
  /\ workerFile = [w \in Workers |-> NoPath]
  /\ closerPc = "idle"
  /\ doneAtClose = <<>>
  /\ scanPanic = FALSE
  /\ trackCount = <<>>
  /\ errCount = <<>>
  /\ errLost = <<>>

\* a goroutine of a running scan takes a step
Scanning == scanning /\ ~scanPanic /\ UNCHANGED <<evars, qvars, fvars, lvars, uvars>>

\* Scan: makes the channels and starts discovery, the workers and the closer
ScanCall ==
  /\ ~scanning
  /\ \E p \in ScanInputs :
       /\ scanPaths' = p
       /\ trackCount' = [path \in Paths(p) |-> 0]
       /\ errCount' = [path \in Paths(p) |-> 0]
       /\ errLost' = [path \in Paths(p) |-> 0]
  /\ scanning' = TRUE
  /\ discPc' = "root"
  /\ discAt' = <<1, 0>>
  /\ workerPc' = [w \in Workers |-> "recv"]
  /\ closerPc' = "wait"
  /\ UNCHANGED <<scanCtx, files, filesClosed, results, resultsCloses, errs,
                 errsCloses, workerFile, doneAtClose, scanPanic>>
  /\ UNCHANGED <<evars, qvars, fvars, lvars, uvars>>

\* the owner of the context cancels it, or its deadline passes
ScanCancel ==
  /\ scanCtx = "live"
  /\ scanCtx' \in {"canceled", "deadline"}
  /\ UNCHANGED <<scanPaths, scanning, files, filesClosed, results,
                 resultsCloses, errs, errsCloses, discPc, discAt, workerPc,
                 workerFile, closerPc, doneAtClose, scanPanic, trackCount,
                 errCount, errLost>>
  /\ UNCHANGED <<evars, qvars, fvars, lvars, uvars>>

\* a report that waits for room in the errors buffer
TrySendErrorBlocking(path) ==
  IF errsCloses > 0
    THEN /\ scanPanic' = TRUE
         /\ UNCHANGED <<errs, errCount, errLost>>
    ELSE /\ Len(errs) < ErrorsCap
         /\ errs' = Append(errs, path)
         /\ errCount' = [errCount EXCEPT ![path] = @ + 1]
         /\ UNCHANGED <<errLost, scanPanic>>

\* select { case errors <- &ScanError{Path: path}: default: }
\* a send on a closed channel panics; a full buffer drops the error
TrySendError(path) ==
  IF errsCloses > 0
    THEN /\ scanPanic' = TRUE
         /\ UNCHANGED <<errs, errCount, errLost>>
    ELSE IF Len(errs) < ErrorsCap
      THEN /\ errs' = Append(errs, path)
           /\ errCount' = [errCount EXCEPT ![path] = @ + 1]
           /\ UNCHANGED <<errLost, scanPanic>>
      ELSE /\ errLost' = [errLost EXCEPT ![path] = @ + 1]
           /\ UNCHANGED <<errs, errCount, scanPanic>>

\* discovery moves on after the entry at <<r, e>>: to the next entry, or
\* WalkDir returns nil and the loop turns to the next root
DiscAdvance ==
  LET r == discAt[1]
      e == discAt[2] IN
    IF e < Len(scanPaths[r])
      THEN discPc' = "walk" /\ discAt' = <<r, e + 1>>
      ELSE discPc' = "root" /\ discAt' = <<r + 1, 0>>

\* the walk callback returns ctx.Err() and WalkDir returns it: a deadline
\* error is reported for the root; after context.Canceled the loop ends at
\* its next ctx.Done() test (or at its end) and the deferred close(files) runs
DiscCtxErr ==
  IF scanCtx = "deadline"
    THEN discPc' = "after" /\ UNCHANGED <<discAt, filesClosed>>
    ELSE discPc' = "done" /\ filesClosed' = TRUE /\ UNCHANGED discAt

\* discovery, top of the loop over paths
DiscRoot ==
  /\ Scanning
  /\ discPc = "root"
  /\ IF discAt[1] > Len(scanPaths) \/ scanCtx # "live"
       THEN discPc' = "done" /\ filesClosed' = TRUE /\ UNCHANGED discAt
       ELSE discPc' = "walk" /\ discAt' = <<discAt[1], 1>> /\ UNCHANGED filesClosed
  /\ UNCHANGED <<scanPaths, scanning, scanCtx, files, results, resultsCloses,
                 errs, errsCloses, workerPc, workerFile, closerPc,
                 doneAtClose, scanPanic, trackCount, errCount, errLost>>

\* discovery, the WalkDir callback on one entry
DiscWalk ==
  /\ Scanning
  /\ discPc = "walk"
  /\ LET entry == EntryAt(discAt) IN
       IF entry.walkErr
         THEN /\ TrySendError(discAt)
              /\ DiscAdvance
              /\ UNCHANGED filesClosed
         ELSE /\ UNCHANGED <<errs, errCount, errLost, scanPanic>>
              /\ IF scanCtx # "live"
                   THEN DiscCtxErr
                   ELSE IF ~entry.isDir /\ isSupported(entry.ext)
                     THEN discPc' = "send" /\ UNCHANGED <<discAt, filesClosed>>
                     ELSE DiscAdvance /\ UNCHANGED filesClosed
  /\ UNCHANGED <<scanPaths, scanning, scanCtx, files, results, resultsCloses,
                 errsCloses, workerPc, workerFile, closerPc, doneAtClose,
                 trackCount>>

\* discovery, select { case files <- p: case <-ctx.Done(): }
DiscSend ==
  /\ Scanning
  /\ discPc = "send"
  /\ \/ /\ Len(files) < FilesCap
        /\ files' = Append(files, discAt)
        /\ DiscAdvance
        /\ UNCHANGED filesClosed
     \/ /\ scanCtx # "live"
        /\ DiscCtxErr
        /\ UNCHANGED files
  /\ UNCHANGED <<scanPaths, scanning, scanCtx, results, resultsCloses, errs,
                 errsCloses, workerPc, workerFile, closerPc, doneAtClose,
                 scanPanic, trackCount, errCount, errLost>>

\* discovery, WalkDir returned an error other than context.Canceled
DiscAfter ==
  /\ Scanning
  /\ discPc = "after"
  /\ TrySendError(<<discAt[1], 0>>)
  /\ discPc' = "done"
  /\ filesClosed' = TRUE
  /\ UNCHANGED <<scanPaths, scanning, scanCtx, files, results, resultsCloses,
                 errsCloses, discAt, workerPc, workerFile, closerPc,
                 doneAtClose, trackCount>>

\* worker, for filePath := range files
WorkerRecv(w) ==
  /\ Scanning
  /\ workerPc[w] = "recv"
  /\ IF files # <<>>
       THEN /\ workerFile' = [workerFile EXCEPT ![w] = Head(files)]
            /\ files' = Tail(files)
            /\ workerPc' = [workerPc EXCEPT ![w] = "check"]
       ELSE /\ filesClosed
            /\ workerPc' = [workerPc EXCEPT ![w] = "done"]
            /\ UNCHANGED <<workerFile, files>>
  /\ UNCHANGED <<scanPaths, scanning, scanCtx, filesClosed, results,
                 resultsCloses, errs, errsCloses, discPc, discAt, closerPc,
                 doneAtClose, scanPanic, trackCount, errCount, errLost>>

\* worker, select { case <-ctx.Done(): return; default: }
WorkerCheck(w) ==
  /\ Scanning
  /\ workerPc[w] = "check"
  /\ IF scanCtx # "live"
       THEN /\ workerPc' = [workerPc EXCEPT ![w] = "done"]
            /\ workerFile' = [workerFile EXCEPT ![w] = NoPath]
       ELSE /\ workerPc' = [workerPc EXCEPT ![w] = "read"]
            /\ UNCHANGED workerFile
  /\ UNCHANGED <<scanPaths, scanning, scanCtx, files, filesClosed, results,
                 resultsCloses, errs, errsCloses, discPc, discAt, closerPc,
                 doneAtClose, scanPanic, trackCount, errCount, errLost>>

\* worker whose failed Read ends it instead of taking the next file
WorkerReadAbort(w) ==
  /\ Scanning
  /\ workerPc[w] = "read"
  /\ IF EntryAt(workerFile[w]).readErr
       THEN /\ TrySendError(workerFile[w])
            /\ workerPc' = [workerPc EXCEPT ![w] = "done"]
            /\ workerFile' = [workerFile EXCEPT ![w] = NoPath]
       ELSE /\ workerPc' = [workerPc EXCEPT ![w] = "send"]
            /\ UNCHANGED <<workerFile, errs, errCount, errLost, scanPanic>>
  /\ UNCHANGED <<scanPaths, scanning, scanCtx, files, filesClosed, results,
                 resultsCloses, errsCloses, discPc, discAt, closerPc,
                 doneAtClose, trackCount>>

\* worker, s.metaReader.Read(filePath): the only error it returns is that of
\* os.Open; the worker reports it and takes the next file
WorkerRead(w) ==
  /\ Scanning
  /\ workerPc[w] = "read"
  /\ IF EntryAt(workerFile[w]).readErr
       THEN /\ TrySendError(workerFile[w])
            /\ workerPc' = [workerPc EXCEPT ![w] = "recv"]
            /\ workerFile' = [workerFile EXCEPT ![w] = NoPath]
       ELSE /\ workerPc' = [workerPc EXCEPT ![w] = "send"]
            /\ UNCHANGED <<workerFile, errs, errCount, errLost, scanPanic>>
  /\ UNCHANGED <<scanPaths, scanning, scanCtx, files, filesClosed, results,
                 resultsCloses, errsCloses, discPc, discAt, closerPc,
                 doneAtClose, trackCount>>

\* worker, select { case tracks <- track: case <-ctx.Done(): return }
WorkerSend(w) ==
  /\ Scanning
  /\ workerPc[w] = "send"
  /\ \/ /\ Len(results) < TracksCap
        /\ results' = Append(results, workerFile[w])
        /\ trackCount' = [trackCount EXCEPT ![workerFile[w]] = @ + 1]
        /\ workerPc' = [workerPc EXCEPT ![w] = "recv"]
     \/ /\ scanCtx # "live"
        /\ workerPc' = [workerPc EXCEPT ![w] = "done"]
        /\ UNCHANGED <<results, trackCount>>
  /\ workerFile' = [workerFile EXCEPT ![w] = NoPath]
  /\ UNCHANGED <<scanPaths, scanning, scanCtx, files, filesClosed,
                 resultsCloses, errs, errsCloses, discPc, discAt, closerPc,
                 doneAtClose, scanPanic, errCount, errLost>>

\* the workers that have returned (wg.Done has run)
WorkersDone == {w \in Workers : workerPc[w] = "done"}

\* closer that goes on as soon as one worker has returned
CloserWaitAny ==
  /\ Scanning
  /\ closerPc = "wait"
  /\ WorkersDone # {}
  /\ resultsCloses' = resultsCloses + 1
  /\ doneAtClose' = Append(doneAtClose, Cardinality(WorkersDone))
  /\ closerPc' = "errors"
  /\ UNCHANGED <<scanPaths, scanning, scanCtx, files, filesClosed, results,
                 errs, errsCloses, discPc, discAt, workerPc, workerFile,
                 scanPanic, trackCount, errCount, errLost>>

\* closer, wg.Wait() returns and close(tracks) runs
CloserWait ==
  /\ Scanning
  /\ closerPc = "wait"
  /\ WorkersDone = Workers
  /\ resultsCloses' = resultsCloses + 1
  /\ doneAtClose' = Append(doneAtClose, Cardinality(WorkersDone))
  /\ closerPc' = "errors"
  /\ UNCHANGED <<scanPaths, scanning, scanCtx, files, filesClosed, results,
                 errs, errsCloses, discPc, discAt, workerPc, workerFile,
                 scanPanic, trackCount, errCount, errLost>>

\* closer, close(errors)
CloserErrors ==
  /\ Scanning
  /\ closerPc = "errors"
  /\ errsCloses' = errsCloses + 1
  /\ doneAtClose' = Append(doneAtClose, Cardinality(WorkersDone))
  /\ closerPc' = "done"
  /\ UNCHANGED <<scanPaths, scanning, scanCtx, files, filesClosed, results,
                 resultsCloses, errs, discPc, discAt, workerPc, workerFile,
                 scanPanic, trackCount, errCount, errLost>>

\* the consumer of Scan (Library.Scan) receives a track
TakeTrack ==
  /\ Scanning
  /\ results # <<>>
  /\ results' = Tail(results)
  /\ UNCHANGED <<scanPaths, scanning, scanCtx, files, filesClosed,
                 resultsCloses, errs, errsCloses, discPc, discAt, workerPc,
                 workerFile, closerPc, doneAtClose, scanPanic, trackCount,
                 errCount, errLost>>

\* the consumer of Scan receives an error
TakeError ==
  /\ Scanning
  /\ errs # <<>>
  /\ errs' = Tail(errs)
  /\ UNCHANGED <<scanPaths, scanning, scanCtx, files, filesClosed, results,
                 resultsCloses, errsCloses, discPc, discAt, workerPc,
                 workerFile, closerPc, doneAtClose, scanPanic, trackCount,
                 errCount, errLost>>

DiscStep == DiscRoot \/ DiscWalk \/ DiscSend \/ DiscAfter

WorkerStep(w) == WorkerRecv(w) \/ WorkerCheck(w) \/ WorkerRead(w) \/ WorkerSend(w)

CloserStep == CloserWait \/ CloserErrors

\* the scanner with its caller and its consumer
SNext ==
  \/ ScanCall
  \/ ScanCancel
  \/ DiscRoot
  \/ DiscWalk
  \/ DiscSend
  \/ DiscAfter
  \/ \E w \in Workers : WorkerRecv(w)
  \/ \E w \in Workers : WorkerCheck(w)
  \/ \E w \in Workers : WorkerRead(w)
  \/ \E w \in Workers : WorkerSend(w)
  \/ CloserWait
  \/ CloserErrors
  \/ TakeTrack
  \/ TakeError

\* ------------------------------------------------------------------------
\* Audio formats: SupportedFormats, IsSupported and DecodeAudio
\* ------------------------------------------------------------------------
\* SupportedFormats(), each format as its sequence of characters
SupportedFormats ==
  {<<".", "m", "p", "3">>, <<".", "w", "a", "v">>, <<".", "f", "l", "a", "c">>}

\* the directories, stems and extensions the file paths are made of
PathDirs == {<<>>, <<"/", "m", "/">>, <<"/", "a", ".", "m", "p", "3", "/">>}

PathStems == {<<>>, <<"s">>, <<"s", ".", "m", "p", "3">>, <<"s", ".", "t", "x", "t">>}

PathExts ==
  {<<>>, <<".">>,
   <<".", "m", "p", "3">>, <<".", "M", "P", "3">>, <<".", "M", "p", "3">>,
   <<".", "w", "a", "v">>, <<".", "W", "A", "V">>,
   <<".", "f", "l", "a", "c">>, <<".", "F", "L", "A", "C">>,
   <<".", "o", "g", "g">>, <<".", "a", "a", "c">>, <<".", "t", "x", "t">>,
   <<".", "m", "p">>, <<".", "m", "p", "3", "x">>}

\* the paths handed to IsSupported and DecodeAudio: the extension is the
\* part after the last dot of the file name
PathInputs ==
  {r \in [dir : PathDirs, stem : PathStems, ext : PathExts] :
     r.ext = <<>> => \A i \in 1..Len(r.stem) : r.stem[i] # "."}

\* the file path as the string the functions receive
PathOf(r) == r.dir \o r.stem \o r.ext

\* filepath.Ext that cuts at the first dot of the path
RECURSIVE FilepathExtFirstDot(_)
FilepathExtFirstDot(path) ==
  IF path = <<>> THEN <<>>
  ELSE IF Head(path) = "." THEN path
  ELSE FilepathExtFirstDot(Tail(path))

\* filepath.Ext: the suffix beginning at the last dot of the last element
\* of the path, empty when that element has no dot
RECURSIVE FilepathExt(_)
FilepathExt(path) ==
  IF path = <<>> \/ path[Len(path)] = "/" THEN <<>>
  ELSE IF path[Len(path)] = "." THEN <<".">>
  ELSE LET ext == FilepathExt(SubSeq(path, 1, Len(path) - 1)) IN
         IF ext = <<>> THEN <<>> ELSE Append(ext, path[Len(path)])

\* strings.ToLower on one character and on a string
LowerChar(c) ==
  CASE c = "M" -> "m" [] c = "P" -> "p" [] c = "W" -> "w" [] c = "A" -> "a"
    [] c = "V" -> "v" [] c = "F" -> "f" [] c = "L" -> "l" [] c = "C" -> "c"
    [] OTHER -> c

StringsToLower(str) == [i \in 1..Len(str) |-> LowerChar(str[i])]

\* IsSupported(filePath)
IsSupported(path) ==
  LET ext == StringsToLower(FilepathExt(path)) IN
    \E format \in SupportedFormats : ext = format

\* DecodeAudio(r, filePath): the decoder of the format reads r and may fail
\* on its content; any other extension is ErrInvalidFormat
DecodeAudio(path, decoded) ==
  LET ext == StringsToLower(FilepathExt(path)) IN
    CASE ext = <<".", "m", "p", "3">> -> IF decoded THEN "mp3" ELSE "mp3 error"
      [] ext = <<".", "w", "a", "v">> -> IF decoded THEN "wav" ELSE "wav error"
      [] ext = <<".", "f", "l", "a", "c">> -> IF decoded THEN "flac" ELSE "flac error"
      [] OTHER -> "InvalidFormat"

FInit ==
  /\ fmtInput = [dir |-> <<>>, stem |-> <<>>, ext |-> <<>>]
  /\ fmtOp = "none"
  /\ fmtRet = "none"

\* a caller asks whether a path is supported
IsSupportedCall ==
  /\ \E r \in PathInputs :
       /\ fmtInput' = r
       /\ fmtRet' = IsSupported(PathOf(r))
  /\ fmtOp' = "IsSupported"
  /\ UNCHANGED <<evars, qvars, svars, lvars, uvars>>

\* a caller decodes an opened file
DecodeAudioCall ==
  /\ \E r \in PathInputs, decoded \in BOOLEAN :
       /\ fmtInput' = r
       /\ fmtRet' = DecodeAudio(PathOf(r), decoded)
  /\ fmtOp' = "DecodeAudio"
  /\ UNCHANGED <<evars, qvars, svars, lvars, uvars>>

FNext == IsSupportedCall \/ DecodeAudioCall

\* ------------------------------------------------------------------------
\* Library: the track map and its secondary indices
\* ------------------------------------------------------------------------
\* most library operations the callers make
MaxLibCalls == 4

\* the files the scanner finds, and the tags the metadata reader can return
\* for a file ("" is an absent tag; a file can be re-tagged between scans)
LibPaths == {"a.mp3", "b.mp3"}
Artists == {"", "X", "Y"}
Albums == {"", "P"}
Genres == {"", "G"}

\* generateTrackID: "track-" and the first 8 bytes of md5(filePath), a
\* function of the path alone (md5 is taken to be collision-free on LibPaths)
generateTrackID(filePath) == <<"track-", filePath>>

\* the tracks MetadataReader.Read can return for the files: the ID comes from
\* the path, the tags from the file's contents
TrackInputs ==
  {[ID |-> generateTrackID(p), FilePath |-> p, Artist |-> ar, Album |-> al,
    Genre |-> g] :
     p \in LibPaths, ar \in Artists, al \in Albums, g \in Genres}

\* a Go map with no entries
EmptyMap == [k \in {} |-> <<>>]

\* index[key], which is nil for an absent key
Lookup(idx, key) == IF key \in DOMAIN idx THEN idx[key] ELSE <<>>

\* index[key] = value
MapPut(m, key, value) ==
  [k \in DOMAIN m \cup {key} |-> IF k = key THEN value ELSE m[k]]

\* delete(index, key)
MapDelete(m, key) == [k \in DOMAIN m \ {key} |-> m[k]]

\* the library as one value
Lib == [Tracks |-> libTracks, TotalTracks |-> totalTracks,
        artistIndex |-> artistIndex, albumIndex |-> albumIndex,
        genreIndex |-> genreIndex]

NewLibrary ==
  [Tracks |-> EmptyMap, TotalTracks |-> 0, artistIndex |-> EmptyMap,
   albumIndex |-> EmptyMap, genreIndex |-> EmptyMap]

\* `if attr != "" { index[attr] = append(index[attr], track.ID) }`
IndexAppend(idx, key, id) ==
  IF key = "" THEN idx ELSE MapPut(idx, key, Append(Lookup(idx, key), id))

LibraryAddTrack(l, track) ==
  LET ts == MapPut(l.Tracks, track.ID, track)
  IN [Tracks |-> ts,
      TotalTracks |-> Cardinality(DOMAIN ts),
      artistIndex |-> IndexAppend(l.artistIndex, track.Artist, track.ID),
      albumIndex |-> IndexAppend(l.albumIndex, track.Album, track.ID),
      genreIndex |-> IndexAppend(l.genreIndex, track.Genre, track.ID)]

\* removeFromIndex: drop the first occurrence of trackID under key, then
\* delete the key when its list is empty
removeFromIndex(idx, key, trackID) ==
  IF key = "" THEN idx
  ELSE LET ids == Lookup(idx, key)
           i == IndexOf(ids, trackID)
           idx1 == IF i >= 0 THEN MapPut(idx, key, RemoveAt(ids, i)) ELSE idx
       IN IF Len(Lookup(idx1, key)) = 0 THEN MapDelete(idx1, key) ELSE idx1

\* RemoveTrack: the library afterwards and the error returned
LibraryRemoveTrack(l, id) ==
  IF id \notin DOMAIN l.Tracks
    THEN [l |-> l, ret |-> "TrackNotFound"]
    ELSE LET track == l.Tracks[id]
             ts == MapDelete(l.Tracks, id)
         IN [l |-> [Tracks |-> ts,
                    TotalTracks |-> Cardinality(DOMAIN ts),
                    artistIndex |-> removeFromIndex(l.artistIndex, track.Artist, id),
                    albumIndex |-> removeFromIndex(l.albumIndex, track.Album, id),
                    genreIndex |-> removeFromIndex(l.genreIndex, track.Genre, id)],
             ret |-> Nil]

LibraryClear(l) == NewLibrary

\* the tracks listed under key that are in the track map, in index order;
\* nil (the empty list) for an absent key
RECURSIVE TracksOf(_, _)
TracksOf(l, ids) ==
  IF ids = <<>> THEN <<>>
  ELSE (IF Head(ids) \in DOMAIN l.Tracks THEN <<l.Tracks[Head(ids)]>> ELSE <<>>)
         \o TracksOf(l, Tail(ids))

GetTracksByArtist(l, artist) == TracksOf(l, Lookup(l.artistIndex, artist))

GetTracksByAlbum(l, album) == TracksOf(l, Lookup(l.albumIndex, album))

LInit ==
  /\ libTracks = NewLibrary.Tracks
  /\ totalTracks = NewLibrary.TotalTracks
  /\ artistIndex = NewLibrary.artistIndex
  /\ albumIndex = NewLibrary.albumIndex
  /\ genreIndex = NewLibrary.genreIndex
  /\ libOp = "NewLibrary"
  /\ libRet = Nil
  /\ libCalls = 0

\* a call on the library that leaves it as l and returns ret
LibApply(op, l, ret) ==
  /\ libCalls < MaxLibCalls
  /\ libCalls' = libCalls + 1
  /\ libTracks' = l.Tracks
  /\ totalTracks' = l.TotalTracks
  /\ artistIndex' = l.artistIndex
  /\ albumIndex' = l.albumIndex
  /\ genreIndex' = l.genreIndex
  /\ libOp' = op
  /\ libRet' = ret
  /\ UNCHANGED <<evars, qvars, svars, fvars, uvars>>

AddTrack ==
  \E track \in TrackInputs : LibApply("AddTrack", LibraryAddTrack(Lib, track), Nil)

RemoveTrack ==
  \E p \in LibPaths :
    LET r == LibraryRemoveTrack(Lib, generateTrackID(p))
    IN LibApply("RemoveTrack", r.l, r.ret)

ClearLibrary == LibApply("Clear", LibraryClear(Lib), Nil)

LNext == AddTrack \/ RemoveTrack \/ ClearLibrary

\* ------------------------------------------------------------------------
\* Specifications
\* ------------------------------------------------------------------------
Init == EInit /\ QInit /\ SInit /\ FInit /\ LInit /\ UInit

\* the playback engine with its driver
Spec == Init /\ [][ENext]_vars

\* the playback engine when the Go scheduler runs every goroutine that can
\* take a step; nothing obliges the driver to call or to receive events
FairSpec ==
  /\ Spec
  /\ WF_vars(RunStep)
  /\ WF_vars(SamplerStep)
  /\ WF_vars(SpeakerStep)

\* the playback queue under any sequence of calls
QueueSpec == Init /\ [][QNext]_vars

\* the playback queue driven through the scenario's operations
ScenarioSpec == Init /\ [][ScenarioNext]_vars

\* the scanner with a caller that may cancel and a consumer that may receive
ScanSpec == Init /\ [][SNext]_vars

\* the scanner when the Go scheduler runs every goroutine that can take a
\* step; nothing obliges the consumer to receive
FairScanSpec ==
  /\ ScanSpec
  /\ WF_vars(DiscStep)
  /\ \A w \in Workers : WF_vars(WorkerStep(w))
  /\ WF_vars(CloserStep)

\* the format functions applied to every path of PathInputs
FormatSpec == Init /\ [][FNext]_vars

\* the scanner with a consumer that drains the results stream; nothing
\* obliges it to receive from the errors stream
ResultsDrainSpec ==
  /\ FairScanSpec
  /\ WF_vars(TakeTrack)

\* the scanner with a consumer that drains both streams
DrainScanSpec ==
  /\ FairScanSpec
  /\ WF_vars(TakeTrack)
  /\ WF_vars(TakeError)

\* the library under any sequence of AddTrack, RemoveTrack and Clear
LibrarySpec == Init /\ [][LNext]_vars

\* the playback engine with the program's UI driver reading its events
DriverSpec == Init /\ [][DNext]_vars

\* ------------------------------------------------------------------------
\* Playback engine: properties
\* ------------------------------------------------------------------------
\* run completes the command it is processing: the step that takes it back to
\* its select
RunCompletes == runPc # "select" /\ runPc' = "select"

\* C1: for every level outside [0,1], SetVolume returns InvalidVolume,
\* enqueues no command and leaves the stored volume as it was; no command
\* with such a level is ever waiting or being processed, and the stored
\* volume stays within [0,1].
C1_OnlyValidLevels ==
  /\ volume \in 0..10
  /\ \A i \in 1..Len(commands) :
       commands[i].type = "Volume" => commands[i].level \in 0..10
  /\ runCmd.type = "Volume" => runCmd.level \in 0..10

C1_Rejects ==
  \A level \in VolumeInputs :
    ((level < 0 \/ level > 10) /\ SetVolumeCall(level)) =>
      (apiRet' = "InvalidVolume" /\ commands' = commands /\ volume' = volume)

C2_PlayNilRejected ==
  [][PlayCall(Nil) =>
       (/\ apiRet' = "TrackNotFound"
        /\ commands' = commands
        /\ UNCHANGED <<status, currentTrack, position, volume>>)]_vars

\* Play(nil) was rejected while a session was open
C2_Witness == apiRet = "TrackNotFound" /\ currentTrack # Nil /\ status = StatusPlaying

\* C3: writing to the fields of the snapshot GetState returned, or of its
\* CurrentTrack, does not change what GetState returns afterwards.
C3_SnapshotIndependent == [][GetStateMutate => GetStateValue' = GetStateValue]_vars

\* the caller wrote to a snapshot taken while there was a current track
C3_Witness == snapRef = "copy" /\ snapTrackRef = "copy" /\ currentTrack # Nil

\* C4: once the context is cancelled during an open session the engine
\* stops the stream, sets status to Stopped and closes the event stream,
\* exactly once, and no task sends on the event stream after it was closed.
C4_NoSendAfterClose == panicked = Nil

C4_ClosedOnceWhenStopped ==
  /\ closeCount <= 1
  /\ eventsClosed => (closeCount = 1 /\ status = StatusStopped /\ streamer = Nil
                      /\ runPc = "done")

C4_CancelClosesEvents ==
  /\ [](C4_NoSendAfterClose /\ C4_ClosedOnceWhenStopped)
  /\ ((ctxDone /\ streamer # Nil) ~>
        (eventsClosed /\ status = StatusStopped /\ streamer = Nil))

\* C12: commands are processed in the order they were sent.  The command run
\* starts processing was sent after every command it processed before and
\* before every command still waiting, and run starts it only when it has
\* completed the previous one (it is at its select); the commands waiting in
\* the channel are in the order of their sends.
C12_WaitingInSendOrder ==
  /\ \A i, j \in 1..Len(commands) : i < j => commands[i].seq < commands[j].seq
  /\ \A i \in 1..Len(commands) : commands[i].seq > runCmd.seq

C12_StartsOldest ==
  runCmd' # runCmd =>
    (/\ runPc = "select"
     /\ runCmd'.seq > runCmd.seq
     /\ \A i \in 1..Len(commands') : commands'[i].seq > runCmd'.seq)

C12_CommandsInOrder == [](C12_WaitingInSendOrder) /\ [][C12_StartsOldest]_vars

\* run is processing the first command sent while the second one waits
C12_Witness ==
  /\ runCmd.seq = 1
  /\ runPc \notin {"select", "new"}
  /\ Len(commands) = 1
  /\ commands[1].seq = 2

\* C13: at most one decoded stream is open at any moment, the open stream is
\* the one e.streamer designates, and when playTrack opens the new file no
\* stream is open (the previous session's stream has been closed).
C13_AtMostOneStream ==
  /\ openStreams <= 1
  /\ (streamer # Nil => openStreams = 1)
  /\ (runPc = "play_open" => openStreams = 0)

\* a second Play has decoded its file after the first one's stream was closed
C13_Witness ==
  /\ runPc = "play_set"
  /\ runCmd.seq = 2
  /\ currentTrack # Nil
  /\ streamer = Nil
  /\ openStreams = 1

\* command number n is waiting in the channel / run has completed it
Waiting(n) == \E i \in 1..Len(commands) : commands[i].seq = n

Processed(n) == runCmd.seq > n \/ (runCmd.seq = n /\ runPc = "select")

\* C14: a Play whose file fails to open or decode publishes an Error event
\* carrying the operation, the track and the cause, and does not end the
\* command loop: run leaves its loop only when the context is cancelled, and
\* every command waiting after a failed Play is eventually processed (unless
\* the context is cancelled first).
C14_ErrorPublished ==
  (RunCompletes /\ runCmd.type = "Play" /\ streamer' = Nil) =>
    (/\ runOut' = <<"Error">>
     /\ events' # <<>>
     /\ events'[Len(events')] \in
          {Evt("Error", runCmd.track, 0, op) : op \in {"open", "decode"}})

C14_LoopSurvives ==
  /\ panicked = Nil
  /\ runPc \in {"cleanup", "cleaning", "close", "done"} => ctxDone

C14_FailedPlayContained ==
  /\ [](C14_LoopSurvives)
  /\ [][C14_ErrorPublished]_vars
  /\ \A n \in 1..MaxCalls :
       (failed /\ runPc # "new" /\ Waiting(n)) ~> (Processed(n) \/ ctxDone)

\* C10: in every state, Status == Stopped implies CurrentTrack == nil.
C10_StoppedHasNoTrack == status = StatusStopped => currentTrack = Nil

\* C11: when run completes a Play(t) whose file opened and decoded (no Error
\* was raised), the status is Playing, CurrentTrack is t, Position is 0, and
\* run has published TrackStarted followed by StateChange for it.
C11_PlayStartsSession ==
  [][(RunCompletes /\ runCmd.type = "Play" /\ runEvt.type # "Error") =>
       (/\ status' = StatusPlaying
        /\ currentTrack' = runCmd.track
        /\ position' = 0
        /\ runOut' = <<"TrackStarted", "StateChange">>)]_vars

\* ------------------------------------------------------------------------
\* Playback queue: properties
\* ------------------------------------------------------------------------
\* n consecutive calls of Next; a panic ends the run
RECURSIVE IterNext(_, _)
IterNext(r, n) ==
  IF n = 0 \/ r.panic THEN r ELSE IterNext(QueueNext(r.q), n - 1)

\* C5: whenever the queue is non-empty the cursor satisfies
\* 0 <= index < len(tracks), after any sequence of queue operations.
C5_CursorInRange == Len(tracks) > 0 => (0 <= index /\ index < Len(tracks))

\* C6: on a non-empty queue in RepeatOne mode, Next() and Previous() each
\* return the track Current() returns and leave the cursor where it was.
C6_RepeatOneStays ==
  [][((NextTrack \/ Previous) /\ Len(tracks) > 0 /\ repeatMode = RepeatOne)
       => (qret' = QueueCurrent(Q) /\ index' = index)]_qvars

\* C7: on a non-empty queue in RepeatAll mode, len(tracks) calls of Next()
\* bring the cursor back to its starting index and the last call returns the
\* track that was current at the start.
C7_RepeatAllCycle ==
  (Len(tracks) > 0 /\ repeatMode = RepeatAll /\ ~qpanic) =>
    LET r == IterNext(QRes(Q, Nil, FALSE), Len(tracks))
    IN ~r.panic /\ r.q.index = index /\ r.ret = QueueCurrent(Q)

\* C8: on a queue that retains no pre-shuffle order, Shuffle() immediately
\* followed by Unshuffle() restores the exact track ordering and leaves the
\* cursor on the track that was current before Shuffle(), whatever the random
\* source returns.
C8_ShuffleUnshuffleRoundTrip ==
  (original = <<>> /\ ~qpanic) =>
    \A js \in RandChoices(IF Len(tracks) <= 1 THEN 1 ELSE Len(tracks)) :
      LET s == QueueShuffle(Q, js)
          u == QueueUnshuffle(s.q)
      IN /\ ~s.panic
         /\ ~u.panic
         /\ u.q.tracks = tracks
         /\ QueueCurrent(u.q) = QueueCurrent(Q)

\* C9 as stated: in RepeatNone mode Next() at the last index returns nothing,
\* Previous() at index 0 keeps the cursor at 0 and returns the current track
\* again, and on [A,B,C] from index 0 the calls Next, Next, Next, Previous,
\* Previous, Previous, Previous return B, C, nil, C, B, A, A.
C9_ScenarioAsStated ==
  scen \in 2..(Len(Script) + 1) => qret = Expected[scen - 1]

\* C9 (amended): in RepeatNone mode Next() at the last index returns nothing
\* and leaves the cursor on the last track, Previous() at index 0 keeps the
\* cursor at 0 and returns the current track again; on [A,B,C] from index 0
\* the calls Next, Next, Next, Previous, Previous, Previous, Previous return
\* B, C, nil, B, A, A, A.
C9_ScenarioReturns ==
  scen \in 2..(Len(Script) + 1) => qret = Returned[scen - 1]

C9_NextAtEnd ==
  (NextTrack /\ repeatMode = RepeatNone /\ Len(tracks) > 0
     /\ index = Len(tracks) - 1) => (qret' = Nil /\ index' = index)

C9_PreviousAtStart ==
  (Previous /\ repeatMode = RepeatNone /\ Len(tracks) > 0 /\ index = 0)
    => (index' = 0 /\ qret' = At(tracks, 0) /\ qret' = QueueCurrent(Q))

C9_RepeatNone ==
  /\ [](C9_ScenarioReturns)
  /\ [][C9_NextAtEnd /\ C9_PreviousAtStart]_qvars

\* the whole script has run: the seventh call (Previous at the start)
\* returned A with the cursor clamped at 0
C9_Witness ==
  /\ scen = Len(Script) + 1
  /\ qop = "Previous"
  /\ qret = "A"
  /\ index = 0
  /\ repeatMode = RepeatNone

\* C19: Remove(i) with a valid i deletes exactly entry i; when i is before the
\* cursor the cursor is decremented and Current() is the same track; when i is
\* after the cursor neither the cursor nor Current() changes; when i is the
\* cursor's slot and the last entry (and entries remain) the cursor is clamped
\* to the new last index; with an invalid i Remove returns an error and
\* changes nothing.
C19_Remove ==
  ~qpanic =>
    \A i \in -1..MaxLen :
      LET r == QueueRemove(Q, i)
          n == Len(tracks)
      IN IF i < 0 \/ i >= n
           THEN r.ret = "error" /\ r.q = Q /\ ~r.panic
           ELSE /\ r.ret = "ok" /\ ~r.panic
                /\ Len(r.q.tracks) = n - 1
                /\ \A k \in 0..(n - 2) :
                     At(r.q.tracks, k) = IF k < i THEN At(tracks, k) ELSE At(tracks, k + 1)
                /\ r.q.repeatMode = repeatMode
                /\ r.q.shuffle = shuffle
                /\ r.q.original = original
                /\ (i < index =>
                      (r.q.index = index - 1 /\ QueueCurrent(r.q) = QueueCurrent(Q)))
                /\ (i > index =>
                      (r.q.index = index /\ QueueCurrent(r.q) = QueueCurrent(Q)))
                /\ ((i = index /\ i = n - 1 /\ n > 1) => r.q.index = n - 2)

\* Remove has just deleted an entry of a queue whose cursor is now on the last
\* of the entries that remain, not the first
C19_Witness ==
  /\ qop = "Remove"
  /\ qret = "ok"
  /\ Len(tracks) >= 2
  /\ index = Len(tracks) - 1

\* a track id
IsTrack(x) == x \in TrackIds \cup ScenarioTracks

\* C20: HasNext() and HasPrevious() change nothing in the queue, and in every
\* queue state and repeat mode HasNext() is true exactly when an immediately
\* following Next() returns a track, and HasPrevious() is true exactly when an
\* immediately following Previous() returns a track.
C20_Exact ==
  ~qpanic =>
    /\ (QueueHasNext(Q) <=> IsTrack(QueueNext(Q).ret))
    /\ (QueueHasPrevious(Q) <=> IsTrack(QueuePrevious(Q).ret))

C20_ReadOnly ==
  (HasNext \/ HasPrevious) =>
    UNCHANGED <<tracks, index, repeatMode, shuffle, original>>

C20_HasNextHasPrevious == [](C20_Exact) /\ [][C20_ReadOnly]_vars

\* ------------------------------------------------------------------------
\* Library scanner: properties
\* ------------------------------------------------------------------------
\* the entries the walk visits under the roots
FilePaths == {path \in DOMAIN trackCount : path[2] > 0}

\* a regular file whose extension is .mp3, .wav or .flac in either case
SupportedFile(path) ==
  /\ ~EntryAt(path).isDir
  /\ EntryAt(path).ext \in {".mp3", ".MP3", ".wav", ".WAV", ".flac", ".FLAC"}

\* the scan has run to its end without cancellation: both streams are closed
ScanCompleted == scanning /\ scanCtx = "live" /\ closerPc = "done"

ExtractorSucceeds == \A path \in FilePaths : ~EntryAt(path).readErr

WalkSucceeds == \A path \in FilePaths : ~EntryAt(path).walkErr

\* the results stream carried one track for each supported file and none for
\* any other entry, and the errors stream carried nothing
CleanResult ==
  /\ \A path \in FilePaths :
       trackCount[path] = (IF SupportedFile(path) THEN 1 ELSE 0)
  /\ \A path \in DOMAIN errCount : errCount[path] = 0

\* C15 as stated: when an uncancelled Scan whose extractor succeeds on every
\* file has closed its streams, the results stream has carried exactly one
\* track for each supported file under the roots and none for any other
\* entry, and the errors stream has carried nothing
C15_CleanScan == (ScanCompleted /\ ExtractorSucceeds) => CleanResult

\* C15 amended: the same when, in addition, the walk meets no error
C15_CleanScanNoWalkError ==
  (ScanCompleted /\ ExtractorSucceeds /\ WalkSucceeds) => CleanResult

\* three supported and two unsupported files have been scanned to the end
\* and the consumer has received everything
C15_Witness ==
  /\ ScanCompleted
  /\ scanPaths = ScenarioWalk
  /\ results = <<>>
  /\ errs = <<>>
  /\ Cardinality({path \in FilePaths : trackCount[path] = 1}) = 3

\* a per-file failure: WalkDir reports an error for the entry, or the
\* extractor cannot open a supported file
Failing(path) ==
  \/ EntryAt(path).walkErr
  \/ SupportedFile(path) /\ EntryAt(path).readErr

\* a supported file that the walk reaches and the extractor reads
Sound(path) == SupportedFile(path) /\ ~Failing(path)

\* C16 as stated: when an uncancelled Scan has closed its streams, every
\* failing entry has been reported as exactly one ScanError on the errors
\* stream, and every other supported file has yielded its track
C16_FailureReported ==
  ScanCompleted =>
    \A path \in FilePaths :
      /\ Failing(path) => errCount[path] = 1
      /\ Sound(path) => trackCount[path] = 1

\* every failing entry has been reported once or dropped once, and yields
\* no track; every other supported file has yielded its track and no error
C16_Outcome ==
  ScanCompleted =>
    \A path \in FilePaths :
      /\ Failing(path) =>
           errCount[path] + errLost[path] = 1 /\ trackCount[path] = 0
      /\ Sound(path) =>
           trackCount[path] = 1 /\ errCount[path] + errLost[path] = 0

\* a ScanError is dropped only when the errors buffer is full
C16_DroppedWhenFull ==
  (scanning /\ errLost' # errLost) => Len(errs) = ErrorsCap

\* C16 amended: in an uncancelled Scan a per-file failure is reported as one
\* ScanError unless the errors buffer is full when it occurs, in which case
\* it is dropped; it never aborts the scan, every other supported file
\* still yields its track
C16_FailureContained == [](C16_Outcome) /\ [][C16_DroppedWhenFull]_vars

\* a scan has ended in which one entry failed and was reported and another
\* supported file yielded its track
C16_Witness ==
  /\ ScanCompleted
  /\ \E path \in FilePaths : Failing(path) /\ errCount[path] = 1
  /\ \E path \in FilePaths : Sound(path) /\ trackCount[path] = 1

\* neither stream has been closed twice, every worker had returned at each
\* close, and a closed stream means every worker has returned
C17_ClosedOnceAfterWorkers ==
  /\ resultsCloses <= 1
  /\ errsCloses <= 1
  /\ \A i \in DOMAIN doneAtClose : doneAtClose[i] = NumWorkers
  /\ (resultsCloses > 0 \/ errsCloses > 0) => WorkersDone = Workers

BothClosed == resultsCloses = 1 /\ errsCloses = 1

\* C17: the results stream and the errors stream are each closed at most
\* once and only after every worker has returned; when the consumer drains
\* both streams and the context is not cancelled, both end up closed
C17_StreamsClosed ==
  /\ [](C17_ClosedOnceAfterWorkers)
  /\ scanning ~> (BothClosed \/ scanCtx # "live")

\* an uncancelled scan that produced a track has closed both streams
C17_Witness ==
  /\ scanning
  /\ scanCtx = "live"
  /\ BothClosed
  /\ Len(doneAtClose) = 2
  /\ \E path \in FilePaths : trackCount[path] = 1

\* discovery, every worker and the closer have returned
AllExited == discPc = "done" /\ WorkersDone = Workers /\ closerPc = "done"

\* C18: no goroutine of Scan panics, and once the context of a running Scan
\* is cancelled discovery, every worker and the closer end up returned,
\* whether or not the consumer receives anything
C18_TasksExit ==
  /\ [](~scanPanic)
  /\ (scanning /\ scanCtx # "live") ~> AllExited

\* ------------------------------------------------------------------------
\* Playback engine: calls, transitions and tasks
\* ------------------------------------------------------------------------
\* the send `e.commands <- cmd` of a call made now completes
CanEnqueue == Len(commands) < CommandsCap

\* C21: a call with valid arguments returns ok, and its send never stays
\* blocked: once the command loop has exited, when nothing receives from
\* e.commands any more, the buffer still has room for the command of the call
C21_CallsReturn ==
  /\ apiRet \in {"none", "ok", "TrackNotFound", "InvalidVolume"}
  /\ runPc = "done" => CanEnqueue

\* ------------------------------------------------------------------------
\* Audio formats: properties
\* ------------------------------------------------------------------------
\* the spellings of .mp3, .wav and .flac among the extensions of PathExts
SupportedSpellings ==
  {<<".", "m", "p", "3">>, <<".", "M", "P", "3">>, <<".", "M", "p", "3">>,
   <<".", "w", "a", "v">>, <<".", "W", "A", "V">>,
   <<".", "f", "l", "a", "c">>, <<".", "F", "L", "A", "C">>}

\* C22: IsSupported returns true exactly for the paths whose extension is
\* .mp3, .wav or .flac in any letter case, and DecodeAudio returns
\* InvalidFormat exactly for the paths IsSupported rejects
C22_SupportedFormats ==
  /\ fmtOp = "IsSupported" =>
       (fmtRet <=> fmtInput.ext \in SupportedSpellings)
  /\ fmtOp = "DecodeAudio" =>
       (fmtRet = "InvalidFormat" <=> ~IsSupported(PathOf(fmtInput)))

\* IsSupported has accepted song.MP3 under a directory whose name has a dot
C22_Witness ==
  /\ fmtOp = "IsSupported"
  /\ fmtRet = TRUE
  /\ fmtInput.ext = <<".", "M", "P", "3">>
  /\ fmtInput.stem = <<"s", ".", "t", "x", "t">>

\* run takes the step that carries out the command of the given type: the
\* locked block of Pause and of Resume, the stopPlayback of Stop
Mutates(type) ==
  /\ runCmd.type = type
  /\ runPc \in {"pause", "resume", "stopping"}
  /\ runPc' = "send"

\* run has finished the command of the given type
Finishes(type) == RunCompletes /\ runCmd.type = type

\* C23: the step of run that carries out Pause while Playing sets the status
\* to Paused, the one that carries out Resume while Paused sets it to
\* Playing; each leaves CurrentTrack, Position and Volume as they were, and
\* when run has finished the command it has published one StateChange
C23_PauseResume ==
  [][/\ (Mutates("Pause") /\ status = StatusPlaying) =>
          (/\ status' = StatusPaused
           /\ UNCHANGED <<currentTrack, position, volume>>)
     /\ (Mutates("Resume") /\ status = StatusPaused) =>
          (/\ status' = StatusPlaying
           /\ UNCHANGED <<currentTrack, position, volume>>)
     /\ (Finishes("Pause") \/ Finishes("Resume")) =>
          runOut' = <<"StateChange">>]_vars

\* a Resume has been carried out on a paused session and its StateChange
\* published
C23_Witness ==
  /\ runCmd.type = "Resume"
  /\ runPc = "select"
  /\ runOut = <<"StateChange">>
  /\ status = StatusPlaying
  /\ ctrl = "playing"
  /\ calls = 3

\* C24: the step of run that carries out Stop, whatever the status, leaves
\* no stream open and nothing playing, sets Position to 0 and the status to
\* Stopped and leaves Volume as it was; when run has finished the Stop the
\* session is still torn down and run has published one StateChange
C24_Stop ==
  [][/\ Mutates("Stop") =>
          (/\ streamer' = Nil
           /\ openStreams' = 0
           /\ ctrl' = "nil"
           /\ speakerStreamer' = Nil
           /\ position' = 0
           /\ status' = StatusStopped
           /\ UNCHANGED volume)
     /\ Finishes("Stop") =>
          (/\ streamer' = Nil
           /\ openStreams' = 0
           /\ position' = 0
           /\ status' = StatusStopped
           /\ runOut' = <<"StateChange">>)]_vars

\* a Stop has been carried out on a session and its StateChange published
C24_Witness ==
  /\ runCmd.type = "Stop"
  /\ runPc = "select"
  /\ runOut = <<"StateChange">>
  /\ status = StatusStopped
  /\ currentTrack # Nil
  /\ openStreams = 0
  /\ commands = <<>>
  /\ calls = 3

\* the speaker goroutine calls the closure that sends TrackEnded
CallsClosure == cbPc = "idle" /\ cbPc' = "sending"

\* the speaker goroutine publishes TrackEnded
PublishesTrackEnded == cbPc = "sending" /\ cbPc' = "idle"

\* C25: the speaker goroutine calls the closure that sends TrackEnded only
\* when the stream of the current track is exhausted, and the event it
\* publishes names that track; calling the closure and publishing the event
\* change neither CurrentTrack nor the status, open and close no stream and
\* enqueue no command; CurrentTrack changes and a stream is opened only
\* while run carries out a Play command
C25_TrackEndedNoAdvance ==
  [][/\ CallsClosure =>
          (/\ streamPos >= StreamLen
           /\ streamer = currentTrack
           /\ cbTrack' = currentTrack)
     /\ PublishesTrackEnded =>
          (/\ events' = Append(events, Evt("TrackEnded", currentTrack, 0, ""))
           /\ streamer = currentTrack)
     /\ (CallsClosure \/ PublishesTrackEnded) =>
          UNCHANGED <<currentTrack, status, streamer, openStreams, commands,
                      runPc>>
     /\ (currentTrack' # currentTrack \/ openStreams' > openStreams) =>
          (runCmd.type = "Play" /\ runPc \in {"play_open", "play_set"})]_vars

\* the only call ever made was a Play, run is idle, and TrackEnded for the
\* track it started is waiting in the events buffer with the session as
\* Play left it
C25_Witness ==
  /\ calls = 1
  /\ commands = <<>>
  /\ runPc = "select"
  /\ events = <<Evt("TrackEnded", currentTrack, 0, "")>>
  /\ currentTrack # Nil
  /\ status = StatusPlaying
  /\ openStreams = 1

\* the fields of the session: e.state, e.streamer, e.ctrl and e.volume
SessionState == <<status, currentTrack, position, volume, streamer, ctrl, volumeFx>>

\* C26: a step of the position sampler leaves every field of the session as
\* it was, and every step that changes a field of the session is a step of
\* the command actor
C26_SamplerReadsOnly ==
  [][/\ tpPc' # tpPc => SessionState' = SessionState
     /\ SessionState' # SessionState => (runPc' # runPc /\ tpPc' = tpPc)]_vars

\* C27: no task is inside a channel send, or the close of the events
\* channel, while it holds e.mu: the sampler holds no read lock while it
\* sends PositionUpdate, the command actor no write lock while it sends or
\* closes
C27_NoLockAcrossSend ==
  /\ tpPc = "sending" => "trackPosition" \notin muReaders
  /\ runPc \in {"send", "close"} => ~muWriter

\* the status stays Playing on the same track over the step
KeepsPlaying ==
  status = StatusPlaying /\ status' = StatusPlaying /\ currentTrack' = currentTrack

\* Stop and the installation of a track by Play set Position to 0
PositionResets ==
  /\ Mutates("Stop") => position' = 0
  /\ (runPc = "play_set" /\ runPc' # runPc) => position' = 0

\* C28 as stated: over a step that keeps the status Playing on the same
\* track Position does not decrease, whatever command is carried out; Stop
\* and the installation of a track by Play reset it to 0
C28_PositionMonotonic ==
  [][/\ KeepsPlaying => position' >= position
     /\ PositionResets]_vars

\* C28 amended: over a step that keeps the status Playing on the same track
\* Position decreases only when run carries out a Seek, or when the sampler
\* takes a sample and Position, set by a Seek, is not a whole number of
\* samples; Stop and the installation of a track by Play reset it to 0
C28_PositionDecreasesOnlyOnSeek ==
  [][/\ (KeepsPlaying /\ position' < position) =>
          \/ runPc = "seek" /\ runPc' = "select"
          \/ /\ tpPc = "idle" /\ tpPc' = "sending"
             /\ position # DurationOf(SamplesOf(position))
             /\ position' = DurationOf(SamplesOf(position))
     /\ PositionResets]_vars

\* after one Play and one Seek to the start, with the PositionUpdate of a
\* later position still in the events buffer, the session is Playing at
\* Position 0
C28_Witness ==
  /\ calls = 2
  /\ commands = <<>>
  /\ runCmd.type = "Seek"
  /\ runCmd.pos = 0
  /\ runPc = "select"
  /\ status = StatusPlaying
  /\ position = 0
  /\ events = <<Evt("PositionUpdate", Nil, DurationOf(1), "")>>

\* ------------------------------------------------------------------------
\* Library scanner: error reporting and channel closing
\* ------------------------------------------------------------------------
\* the step in which a producer reports a ScanError: discovery on a walk
\* error or on the error of WalkDir, a worker on an extractor error
ReportsError ==
  \/ /\ discPc = "walk" /\ EntryAt(discAt).walkErr
     /\ <<discPc, discAt>>' # <<discPc, discAt>>
  \/ discPc = "after" /\ discPc' # "after"
  \/ \E w \in Workers :
       /\ workerPc[w] = "read" /\ EntryAt(workerFile[w]).readErr
       /\ workerPc'[w] # "read"

\* no ScanError has been received by the consumer
ErrorsUnread ==
  \A path \in DOMAIN errCount :
    errCount[path] = Cardinality({i \in DOMAIN errs : errs[i] = path})

C30_NoSendAfterClose ==
  /\ resultsCloses > 0 => WorkersDone = Workers
  /\ ~scanPanic

\* ------------------------------------------------------------------------
\* Playback engine: order of a session's events, and failed Play commands
\* ------------------------------------------------------------------------
\* run has started a session on the speaker and has not yet placed its
\* TrackStarted on the event stream
StartedUnsent == runPc = "send" /\ runEvt.type = "TrackStarted"

\* C38: for every Play(t) that starts a session, TrackStarted(t) is on the
\* event stream before TrackEnded(t) of that session is placed there, in every
\* interleaving of run with the speaker's end-of-stream callback.
C38_StartedBeforeEnded ==
  [][PublishesTrackEnded => ~(StartedUnsent /\ runEvt.track = cbTrack)]_vars

\* run is about to publish, or has just published, the Error event of a Play
\* command
PlayEndsInError ==
  /\ runCmd.type = "Play"
  /\ \/ runPc = "send" /\ runEvt.type = "Error"
     \/ runPc = "select" /\ runOut = <<"Error">>

\* C39: whenever processing a Play command ends in an Error event (open,
\* decode or speaker initialisation failure) the status is not Playing and no
\* stream is held open.
C39_FailedPlayStopped ==
  PlayEndsInError =>
    (status # StatusPlaying /\ streamer = Nil /\ openStreams = 0)

\* ------------------------------------------------------------------------
\* Playback queue: shuffling
\* ------------------------------------------------------------------------
\* most consecutive Shuffle calls examined
MaxShuffles == 2

\* number of entries of s that are track t
Occurrences(s, t) == Cardinality({i \in 1..Len(s) : s[i] = t})

\* s2 holds exactly the tracks s1 holds, each as many times
SameTracks(s1, s2) ==
  \A t \in TrackIds \cup ScenarioTracks : Occurrences(s1, t) = Occurrences(s2, t)

\* the possible outcomes of rand.Intn in one Shuffle of queue q
ChoicesFor(q) == RandChoices(IF Len(q.tracks) <= 1 THEN 1 ELSE Len(q.tracks))

\* the results k consecutive Shuffle calls from result r can have; a panic
\* ends the run
RECURSIVE Shuffles(_, _)
Shuffles(r, k) ==
  IF k = 0 \/ r.panic THEN {r}
  ELSE UNION {Shuffles(QueueShuffle(r.q, js), k - 1) : js \in ChoicesFor(r.q)}

\* C31: on a queue of at least two tracks Shuffle() leaves the queue a
\* permutation of what it held, sets the cursor to 0 and puts the track that
\* was current at index 0, so Current() is the same track before and after,
\* whatever the random source returns.
C31_ShuffleKeepsCurrent ==
  (Len(tracks) >= 2 /\ ~qpanic) =>
    \A js \in ChoicesFor(Q) :
      LET s == QueueShuffle(Q, js)
      IN /\ ~s.panic
         /\ SameTracks(s.q.tracks, tracks)
         /\ s.q.index = 0
         /\ At(s.q.tracks, 0) = QueueCurrent(Q)
         /\ QueueCurrent(s.q) = QueueCurrent(Q)

\* C32: Shuffle() on a queue that retains a pre-shuffle order leaves that
\* order as saved, and from a queue that retains none, k >= 1 consecutive
\* Shuffle() calls followed by one Unshuffle() restore the ordering the queue
\* had before the first Shuffle().
C32_SavedOrderKept ==
  ~qpanic =>
    /\ original # <<>> =>
         \A js \in ChoicesFor(Q) : QueueShuffle(Q, js).q.original = original
    /\ original = <<>> =>
         \A k \in 1..MaxShuffles :
           \A s \in Shuffles(QRes(Q, Nil, FALSE), k) :
             /\ ~s.panic
             /\ LET u == QueueUnshuffle(s.q)
                IN ~u.panic /\ u.q.tracks = tracks

\* C33: Unshuffle() leaves in the queue exactly the tracks it held immediately
\* before the call.
C33_UnshuffleKeepsTracks ==
  ~qpanic =>
    LET u == QueueUnshuffle(Q)
    IN ~u.panic /\ SameTracks(u.q.tracks, tracks)

\* C34: in every state reached by Set, Add, Clear, Remove, JumpTo, Shuffle,
\* Unshuffle and SetRepeatMode no call has indexed outside the track list, and
\* each of Current, Next, Previous, Shuffle and Unshuffle completes without
\* doing so.
C34_NoOutOfRange ==
  /\ ~qpanic
  /\ ~QueueNext(Q).panic
  /\ ~QueuePrevious(Q).panic
  /\ ~QueueUnshuffle(Q).panic
  /\ \A js \in ChoicesFor(Q) : ~QueueShuffle(Q, js).panic

\* C35: IsShuffled() is true exactly when a pre-shuffle order is retained; in
\* particular it is false after Set and after Clear.
C35_IsShuffledExact ==
  ~qpanic =>
    /\ (QueueIsShuffled(Q) <=> original # <<>>)
    /\ (qop \in {"Set", "Clear"} => ~QueueIsShuffled(Q))

\* ------------------------------------------------------------------------
\* Library: properties
\* ------------------------------------------------------------------------
\* the attribute of a track that an index is keyed by
AttrOf(track, attr) ==
  CASE attr = "Artist" -> track.Artist
    [] attr = "Album" -> track.Album
    [] attr = "Genre" -> track.Genre

\* index idx agrees with the track map of l on attribute attr
IndexAgrees(l, idx, attr) ==
  /\ \A key \in DOMAIN idx :
       /\ idx[key] # <<>>
       /\ \A i \in 1..Len(idx[key]) :
            /\ idx[key][i] \in DOMAIN l.Tracks
            /\ AttrOf(l.Tracks[idx[key][i]], attr) = key
  /\ \A id \in DOMAIN l.Tracks :
       LET key == AttrOf(l.Tracks[id], attr)
       IN key # "" => Occurrences(Lookup(idx, key), id) = 1

\* C36: after any sequence of AddTrack, RemoveTrack and Clear every ID listed
\* under an artist, album or genre key is in the track map with that
\* attribute, every track with a non-empty attribute is listed exactly once
\* under it, and no index key has an empty list.
C36_IndicesAgree ==
  /\ IndexAgrees(Lib, artistIndex, "Artist")
  /\ IndexAgrees(Lib, albumIndex, "Album")
  /\ IndexAgrees(Lib, genreIndex, "Genre")

\* what a caller can observe of library l: the track map, TotalTracks and the
\* answers of GetTracksByArtist and GetTracksByAlbum
Observable(l) ==
  [Tracks |-> l.Tracks,
   TotalTracks |-> l.TotalTracks,
   byArtist |-> [a \in Artists |-> GetTracksByArtist(l, a)],
   byAlbum |-> [a \in Albums |-> GetTracksByAlbum(l, a)]]

\* C37: a file always gets the same track ID, and adding a track whose ID is
\* already present leaves the track map, TotalTracks, GetTracksByArtist and
\* GetTracksByAlbum as they were after the first add.
C37_RescanIdempotent ==
  \A track \in TrackInputs :
    LET first == LibraryAddTrack(Lib, track)
        again == LibraryAddTrack(first, track)
    IN /\ track.ID = generateTrackID(track.FilePath)
       /\ Observable(again) = Observable(first)

\* ------------------------------------------------------------------------
\* UI driver: properties
\* ------------------------------------------------------------------------
\* the driver's event command takes an event off the stream
ConsumesEvent ==
  /\ uiPc = "listening"
  /\ uiPc' # "listening"
  /\ events # <<>>
  /\ events' = Tail(events)

\* C40: after the driver consumes any event of the engine (TrackStarted,
\* TrackEnded, PositionUpdate, StateChange or Error) it goes on to issue
\* another receive on the event stream, so the command loop is never left
\* blocked on an event send with nobody reading.
C40_DriverKeepsListening ==
  /\ [][ConsumesEvent => uiPc' # "idle"]_vars
  /\ [](~(uiPc = "idle" /\ runPc = "send" /\ Len(events) = EventsCap /\ ~eventsClosed))
====
